---- MODULE Spec2Model ----
(***************************************************************************)
(* grpcprom: Prometheus instrumentation of gRPC clients and servers.       *)
(*                                                                         *)
(* The model follows the handler of src/unnamed/part_005.  That file holds *)
(* two revisions of the handler:                                           *)
(*   lines 1-456     the correlation key of a call's rpcInfo is the        *)
(*                   handler itself (ctx.Value(h)); disabled metrics are   *)
(*                   no-op implementations;                                *)
(*   lines 457-1003  the correlation key is the package variable           *)
(*                   rpcInfoKey (ctx.Value(&rpcInfoKey)); disabled metrics *)
(*                   are nil.                                              *)
(* The variable rev selects the revision: Spec is the first one,           *)
(* SpecProcessKey the second one.                                          *)
(*                                                                         *)
(* The state is one handler (the handler of a ClientMetrics or of a        *)
(* ServerMetrics: registry and metric set), the calls the gRPC runtime     *)
(* drives through it (stats hooks TagRPC and HandleRPC, interceptors that  *)
(* call handler.context), and the context of one in-flight incoming call   *)
(* that the other handler of the process has tagged: a call of this        *)
(* handler is started either from the background context or from that      *)
(* context (an outgoing call made inside the handler of an incoming call). *)
(***************************************************************************)
EXTENDS Integers, Sequences, FiniteSets, TLC

\* ------------------------------------------------------------------ bounds
MaxCalls  == 1      \* calls started in one behaviour
MaxInits  == 2      \* warm-up registrations in one behaviour
MaxTime   == 1      \* latest reading of the clock (it starts at 1; 0 is the zero time.Time)
MaxFrames == 1      \* header/payload/trailer events in one behaviour
MaxWire   == 1      \* largest wire length of a frame
MaxObserves == 2    \* direct Observe calls on the observers in one behaviour
MaxValue  == 1      \* largest value handed to Observe directly
MaxLen    == 3      \* longest full method name that is split
MaxConns  == 2      \* connection events of either kind in one behaviour
MaxGoroutines == 2  \* goroutines calling Observe at the same time
MaxSubs   == 1      \* sub-options one Option is constructed with
MaxEvents == 2      \* events delivered to the handler of a Metrics

\* --------------------------------------------------------------- constants
header  == "Header"
payload == "Payload"
trailer == "Trailer"

unknown      == "Unknown"
unary        == "Unary"
clientStream == "ClientStream"
serverStream == "ServerStream"
bidiStream   == "BidiStream"

Frames == {header, payload, trailer}

\* Strings are sequences of characters so that names can be split.
UnknownName == <<"U", "n", "k", "n", "o", "w", "n">>

\* Context keys: the handler itself, the other handler of the process, and
\* the package variable of the second revision.
thisHandler  == "h"
otherHandler == "other"
rpcInfoKey   == "grpcprom"

\* Outcome codes a call can end with (status.Code(err).String()).
Codes == {"OK", "Canceled"}

\* AllCodes: every gRPC code.
AllCodes ==
    {"OK", "Canceled", "Unknown", "InvalidArgument", "DeadlineExceeded", "NotFound",
     "AlreadyExists", "PermissionDenied", "ResourceExhausted", "FailedPrecondition",
     "Aborted", "OutOfRange", "Unimplemented", "Internal", "Unavailable", "DataLoss",
     "Unauthenticated"}

\* Code lists handed to warm-up.
CodeLists == {{}, {"OK"}}

\* Service descriptors registered on the grpc.Server (GetServiceInfo):
\* service name -> set of grpc.MethodInfo.
ServiceInfo ==
    [s \in {<<"s">>} |->
        {[Name |-> <<"u">>, IsClientStream |-> FALSE, IsServerStream |-> FALSE],
         [Name |-> <<"w">>, IsClientStream |-> FALSE, IsServerStream |-> TRUE]}]

\* Full method names the runtime reports for calls.
FullNames == {<<"/", "s", "/", "u">>, <<"u">>}

\* Every full method name of at most MaxLen characters over a small alphabet.
SplitNames == UNION {[1..k -> {"/", "a", "b"}] : k \in 0..MaxLen}

\* Stream flags <<isClientStream, isServerStream>> the interceptors are handed
\* for a method name: the flags of its descriptor and, for a client that
\* opens every method with a generic StreamDesc, other ones.
StreamFlags ==
    [n \in FullNames |->
        IF n = <<"u">> THEN {<<TRUE, FALSE>>, <<FALSE, TRUE>>}
                       ELSE {<<FALSE, FALSE>>, <<TRUE, TRUE>>}]

\* Identities of rpcInfo objects: the incoming call's record is OuterRec, the
\* records this handler allocates are positive, NoRec is a failed lookup.
NoRec    == -1
OuterRec == 0

\* ------------------------------------------------------------- pure helpers
\* A faulty variant of grpcType: the two flags are taken in the wrong order.
grpcType_Swapped(isClientStream, isServerStream) ==
    IF isClientStream
    THEN IF isServerStream THEN bidiStream ELSE serverStream
    ELSE IF isServerStream THEN clientStream ELSE unary

grpcType(isClientStream, isServerStream) ==
    IF isServerStream
    THEN IF isClientStream THEN bidiStream ELSE serverStream
    ELSE IF isClientStream THEN clientStream ELSE unary

TrimPrefix(s, p) ==
    IF Len(s) >= Len(p) /\ SubSeq(s, 1, Len(p)) = p
    THEN SubSeq(s, Len(p) + 1, Len(s))
    ELSE s

\* A faulty variant of Index: the last occurrence is taken.
Index_Last(s, ch) ==
    IF \E i \in 1..Len(s) : s[i] = ch
    THEN (CHOOSE i \in 1..Len(s) : s[i] = ch /\ \A j \in (i + 1)..Len(s) : s[j] # ch) - 1
    ELSE -1

\* strings.Index for a one-character separator: 0-based, -1 when absent.
Index(s, ch) ==
    IF \E i \in 1..Len(s) : s[i] = ch
    THEN (CHOOSE i \in 1..Len(s) : s[i] = ch /\ \A j \in 1..(i - 1) : s[j] # ch) - 1
    ELSE -1

splitFullMethodName(s) ==
    LET t == TrimPrefix(s, <<"/">>)
        i == Index(t, "/")
    IN  IF i < 0
        THEN <<UnknownName, UnknownName>>
        ELSE <<SubSeq(t, 1, i), SubSeq(t, i + 2, Len(t))>>

\* "/" + server + "/" + meth.Name
FullName(server, name) == <<"/">> \o server \o <<"/">> \o name

\* ------------------------------------------------------------------- state
VARIABLES
    rev,          \* "handlerKey" (lines 1-456) or "processKey" (lines 457-1003)
    handler,      \* the handler of a Metrics of the first API: client and server metrics
    cfg,          \* which implementation each metric of the handler has
    methods,      \* the registry: full name -> methodInfo
    reqsPending,  \* <<typ, server, method>> -> value
    reqsTotal,    \* <<typ, server, method, code>> -> value
    latency,      \* <<typ, server, method, code>> -> [num, sum]
    sentBytes,    \* <<typ, server, method, frame>> -> [num, sum]
    recvBytes,    \* <<typ, server, method, frame>> -> [num, sum]
    rec,          \* the rpcInfo objects: id -> [info, begin]
    calls,        \* calls[c]: what the runtime has done with the call in slot c
    ctx,          \* ctx[c]: values of the call's context as the application sees it
    statsCtx,     \* statsCtx[c]: values of the context returned by TagRPC
    started,      \* number of calls started so far
    nframes,      \* number of frame events delivered so far
    inits,        \* arguments of the warm-ups done so far, in order
    connsOpen,    \* value of the connections_open gauge
    connsTotal,   \* value of the connections_total counter
    conns,        \* the connection events delivered so far
    observing,    \* per goroutine, where it is in its call of Observe
    resolving,    \* per goroutine, where it is in its call of methodInfo
    handlerServer, \* the server metrics of two Metrics of the first API, built
                  \* from two option sets and given the same calls
    options       \* the options struct newMetrics applies its Options to

vars == <<rev, cfg, methods, reqsPending, reqsTotal, latency, sentBytes, recvBytes,
          rec, calls, ctx, statsCtx, started, nframes, inits, connsOpen, connsTotal, conns, observing, resolving,
          handlerServer, handler, options>>

CallIds == 1..MaxCalls

\* ------------------------------------------------------------ construction
\* options.go: the option tree and the option constructors.
\* newLatency reads only whether the bucket list is empty, so the lists are
\* kept short.
DefaultLatencyBuckets == <<1, 2, 5>>

DefaultBytesBuckets == <<0, 32, 64, 128, 256, 512, 1024, 2048, 8192, 32768, 131072, 524288>>

options0 ==
    [connsOpen   |-> [disable |-> FALSE],
     connsTotal  |-> [disable |-> FALSE],
     reqsPending |-> [disable |-> FALSE],
     reqsTotal   |-> [disable |-> FALSE],
     latency     |-> [disable |-> FALSE, buckets |-> DefaultLatencyBuckets],
     recvBytes   |-> [disable |-> FALSE, buckets |-> <<>>],
     sentBytes   |-> [disable |-> FALSE, buckets |-> <<>>]]

\* A sub-option: Disable(), NoBuckets() or Buckets(v).
Disable      == [op |-> "Disable", v |-> <<>>]
NoBuckets    == [op |-> "NoBuckets", v |-> <<>>]
Buckets(v)   == [op |-> "Buckets", v |-> v]

applyMetricOption(o, sub) ==
    IF sub.op = "Disable" THEN [o EXCEPT !.disable = TRUE] ELSE o

\* A faulty variant of applyHistogramOption: Buckets enables the metric again.
applyHistogramOption_Reenable(o, sub) ==
    CASE sub.op = "Disable"   -> [o EXCEPT !.disable = TRUE]
      [] sub.op = "Buckets"   -> [o EXCEPT !.buckets = sub.v, !.disable = FALSE]
      [] sub.op = "NoBuckets" -> [o EXCEPT !.buckets = <<>>]

\* A faulty variant of applyHistogramOption: NoBuckets leaves the buckets alone.
applyHistogramOption_KeepBuckets(o, sub) ==
    CASE sub.op = "Disable"   -> [o EXCEPT !.disable = TRUE]
      [] sub.op = "Buckets"   -> [o EXCEPT !.buckets = sub.v]
      [] sub.op = "NoBuckets" -> o

applyHistogramOption(o, sub) ==
    CASE sub.op = "Disable"   -> [o EXCEPT !.disable = TRUE]
      [] sub.op = "Buckets"   -> [o EXCEPT !.buckets = sub.v]
      [] sub.op = "NoBuckets" -> [o EXCEPT !.buckets = <<>>]

RECURSIVE applySubs(_, _, _)
applySubs(o, subs, isHist) ==
    IF subs = <<>> THEN o
    ELSE applySubs(IF isHist THEN applyHistogramOption(o, Head(subs))
                             ELSE applyMetricOption(o, Head(subs)),
                   Tail(subs), isHist)

\* A faulty variant of applyOption: SentBytes writes the options of recv_bytes.
applyOption_Misdirected(o, opt) ==
    LET to == IF opt.metric = "sentBytes" THEN "recvBytes" ELSE opt.metric
    IN  [o EXCEPT ![to] =
            applySubs(@, opt.subs, opt.metric \in {"latency", "recvBytes", "sentBytes"})]

\* An Option names one metric and carries its sub-options.
applyOption(o, opt) ==
    [o EXCEPT ![opt.metric] =
        applySubs(@, opt.subs, opt.metric \in {"latency", "recvBytes", "sentBytes"})]

RECURSIVE applyOptions(_, _)
applyOptions(o, opts) ==
    IF opts = <<>> THEN o ELSE applyOptions(applyOption(o, Head(opts)), Tail(opts))

newVec(opts) == IF opts.disable THEN "noop" ELSE "real"

\* A faulty variant of newObserver: the disable option is not looked at.
newObserver_IgnoreDisable(opts) ==
    IF Len(opts.buckets) > 0 THEN "histogram" ELSE "counters"

newObserver(opts) ==
    IF opts.disable THEN "noop"
    ELSE IF Len(opts.buckets) > 0 THEN "histogram" ELSE "counters"

newMetrics(opts) ==
    LET o == applyOptions(options0, opts)
    IN  [connsOpen   |-> newVec(o.connsOpen),
         connsTotal  |-> newVec(o.connsTotal),
         reqsPending |-> newVec(o.reqsPending),
         reqsTotal   |-> newVec(o.reqsTotal),
         latency     |-> newObserver(o.latency),
         sentBytes   |-> newObserver(o.sentBytes),
         recvBytes   |-> newObserver(o.recvBytes)]

\* The Options the constructors ConnectionsOpen, ConnectionsTotal,
\* RequestsPending, RequestsTotal (with MetricOptions: Disable) and
\* LatencySeconds, RecvBytes, SentBytes (with HistogramOptions: Disable,
\* NoBuckets, Buckets) return, with up to MaxSubs sub-options.
SubOptions(metric) ==
    IF metric \in {"latency", "recvBytes", "sentBytes"}
    THEN {Disable, NoBuckets, Buckets(<<0, 1>>), Buckets(<<>>)}
    ELSE {Disable}

Options ==
    UNION {{[metric |-> M, subs |-> q] : q \in UNION {[1..k -> SubOptions(M)] : k \in 0..MaxSubs}} :
            M \in DOMAIN options0}

\* Option lists the process is built with.
OptionLists ==
    { <<>>,
      <<[metric |-> "latency", subs |-> <<NoBuckets>>],
        [metric |-> "recvBytes", subs |-> <<Disable>>],
        [metric |-> "sentBytes", subs |-> <<Disable>>]>>,
      <<[metric |-> "reqsTotal", subs |-> <<Disable>>],
        [metric |-> "connsOpen", subs |-> <<Disable>>],
        [metric |-> "latency", subs |-> <<Disable>>],
        [metric |-> "sentBytes", subs |-> <<Buckets(<<0, 1>>)>>]>> }

\* ---------------------------------------------------------- metric vectors
Empty == [x \in {} |-> 0]

\* A faulty variant of GetMetricWithLabelValues: the child is set to zero when it exists.
GetMetricWithLabelValues_Reset(vec, lvs, kind) ==
    IF kind = "noop" THEN vec
    ELSE [l \in DOMAIN vec \cup {lvs} |-> IF l = lvs THEN 0 ELSE vec[l]]

\* GetMetricWithLabelValues / WithLabelValues: create the child at zero.
GetMetricWithLabelValues(vec, lvs, kind) ==
    IF kind = "noop" \/ lvs \in DOMAIN vec THEN vec ELSE vec @@ (lvs :> 0)

Add(vec, lvs, d, kind) ==
    IF kind = "noop" THEN vec
    ELSE [GetMetricWithLabelValues(vec, lvs, kind) EXCEPT ![lvs] = @ + d]

Zero == [num |-> 0, sum |-> 0]

\* A faulty variant of ObserverInit: Init creates no child.
ObserverInit_Nothing(obs, lvs, kind) == obs

\* observer.Init: histogram.Init / counters.Init / noopObserver.Init
ObserverInit(obs, lvs, kind) ==
    IF kind = "noop" \/ lvs \in DOMAIN obs THEN obs ELSE obs @@ (lvs :> Zero)

\* A faulty variant of Observe: the value is added, the observation is not counted.
Observe_SumOnly(obs, v, lvs, kind) ==
    IF kind = "noop" THEN obs
    ELSE [ObserverInit(obs, lvs, kind) EXCEPT ![lvs] = [num |-> @.num, sum |-> @.sum + v]]

\* observer.Observe: histogram.Observe / counters.Observe / noopObserver.Observe
Observe(obs, v, lvs, kind) ==
    IF kind = "noop" THEN obs
    ELSE [ObserverInit(obs, lvs, kind) EXCEPT ![lvs] = [num |-> @.num + 1, sum |-> @.sum + v]]

\* The observers of the handler and the names they are created with.
Observers == {"latency", "sentBytes", "recvBytes"}

observerName ==
    [latency |-> "latency_seconds", sentBytes |-> "sent_bytes", recvBytes |-> "recv_bytes"]

\* What an observer of a kind exports per label tuple: a HistogramVec its
\* buckets, sum and count, the counters their two CounterVecs, the no-op
\* observer nothing.
Exports(kind) ==
    CASE kind = "histogram" -> {"bucket", "sum", "count"}
      [] kind = "counters"  -> {"sum", "count"}
      [] kind = "noop"      -> {}

\* observer.Describe: the descriptors sent.
observerDescribe(kind, name) ==
    CASE kind = "histogram" -> {<<name>>}
      [] kind = "counters"  -> {<<name, "sum">>, <<name, "count">>}
      [] kind = "noop"      -> {}

\* observer.Collect: the series sent.
observerCollect(obs, kind, name) ==
    {<<name, part, l>> : part \in Exports(kind), l \in DOMAIN obs}

\* Value of a series, an absent series counting as 0.
Val(vec, lvs) == IF lvs \in DOMAIN vec THEN vec[lvs] ELSE 0
Num(obs, lvs) == IF lvs \in DOMAIN obs THEN obs[lvs].num ELSE 0

RECURSIVE SumVals(_, _)
SumVals(vec, S) ==
    IF S = {} THEN 0
    ELSE LET x == CHOOSE y \in S : TRUE IN vec[x] + SumVals(vec, S \ {x})

RECURSIVE SumNums(_, _)
SumNums(obs, S) ==
    IF S = {} THEN 0
    ELSE LET x == CHOOSE y \in S : TRUE IN obs[x].num + SumNums(obs, S \ {x})

\* Sums over all series of a vector.
SumAll(vec) == SumVals(vec, DOMAIN vec)
NumAll(obs) == SumNums(obs, DOMAIN obs)

\* ------------------------------------------------------------ the first API
\* grpcprom.Metrics: SubsystemOpts of the server subsystem, as the Disable
\* flags of its three HistogramOpts (Buckets only choose the bucket ladder).
SubsystemOpts == [BytesRecv : BOOLEAN, BytesSent : BOOLEAN, Latency : BOOLEAN]
SubsystemOpts0 == [BytesRecv |-> FALSE, BytesSent |-> FALSE, Latency |-> FALSE]

\* The two Metrics that are compared.
Runs == {1, 2}

\* newMetrics("server", options.Server): the two request vectors always, a
\* HistogramVec per histogram that is not disabled and a nil pointer
\* otherwise; panicked is set once a call on the metrics has panicked.
NewMetrics(opts) ==
    [reqsPending |-> Empty,
     reqsTotal   |-> Empty,
     latency     |-> [nil |-> opts.Latency, vec |-> Empty],
     bytesRecv   |-> [nil |-> opts.BytesRecv, vec |-> Empty],
     bytesSent   |-> [nil |-> opts.BytesSent, vec |-> Empty],
     panicked    |-> FALSE]

\* vec.GetMetricWithLabelValues(lvs...) on a vector with `labels` label
\* names: the child is created at `zero`, or an error is returned, and
\* dropped by the caller, when the number of values is not that of the names.
GetMetricWithLabelValuesOf(vec, lvs, labels, zero) ==
    IF Len(lvs) # labels \/ lvs \in DOMAIN vec THEN vec ELSE vec @@ (lvs :> zero)

RECURSIVE CreateAll(_, _, _, _)
CreateAll(vec, tuples, labels, zero) ==
    IF tuples = {} THEN vec
    ELSE LET t == CHOOSE x \in tuples : TRUE
         IN  CreateAll(GetMetricWithLabelValuesOf(vec, t, labels, zero), tuples \ {t}, labels, zero)

\* newMetrics(subsys, opts) with the connection metrics, which
\* InitServer does not touch.
newSubsystemMetrics(opts) ==
    [reqsPending |-> Empty,
     reqsTotal   |-> Empty,
     latency     |-> [nil |-> opts.Latency, vec |-> Empty],
     bytesRecv   |-> [nil |-> opts.BytesRecv, vec |-> Empty],
     bytesSent   |-> [nil |-> opts.BytesSent, vec |-> Empty],
     connsOpen   |-> 0,
     connsTotal  |-> 0]

\* The rpcInfo of the call in flight: none before TagRPC.
NoInfo == [ok |-> FALSE, server |-> <<>>, method |-> <<>>, begin |-> 0]

\* NewMetrics(MetricsOpts{Client: client, Server: server}).handler, with the
\* context of the call in flight and the number of events delivered.
NewHandler(client, server) ==
    [client |-> newSubsystemMetrics(client),
     server |-> newSubsystemMetrics(server),
     info   |-> NoInfo,
     events |-> 0]

\* splitFullMethodName of the first API.
LowerUnknown == <<"u", "n", "k", "n", "o", "w", "n">>
splitFullMethodNameFirst(s) ==
    LET t == TrimPrefix(s, <<"/">>)
        i == Index(t, "/")
    IN  IF i < 0
        THEN <<LowerUnknown, LowerUnknown>>
        ELSE <<SubSeq(t, 1, i), SubSeq(t, i + 2, Len(t))>>

\* vec.WithLabelValues(lvs...).Add(d) and .Observe(v); a nil *HistogramVec
\* is tested by the caller and skipped.
WithAdd(vec, lvs, d) == Add(vec, lvs, d, "real")
WithObserve(h, lvs, v) == IF h.nil THEN h ELSE [h EXCEPT !.vec = Observe(@, v, lvs, "histogram")]

\* The RPCStats and ConnStats values delivered to the handler.
RPCStats ==
    [kind : {"Begin"}, BeginTime : {0, MaxTime}]
        \cup [kind : {"End"}, code : Codes, now : {0, MaxTime}]
        \cup [kind : {"InHeader", "InPayload", "InTrailer", "OutHeader", "OutPayload", "OutTrailer"},
              WireLength : {0, MaxWire}]
ConnStats == {"ConnBegin", "ConnEnd"}

\* A faulty variant of subsystemOf: the server metrics whatever the flag.
subsystemOf_Server(isClient) == "server"

\* m := h.server; if stat.IsClient() { m = h.client }
subsystemOf(isClient) == IF isClient THEN "client" ELSE "server"

\* The switch of handler.HandleRPC on the metrics m with the rpcInfo v.
HandleRPCOn(m, v, stat) ==
    CASE stat.kind = "Begin" ->
            [m EXCEPT !.reqsPending = WithAdd(@, <<v.server, v.method>>, 1)]
      [] stat.kind = "End" ->
            [m EXCEPT !.latency = WithObserve(@, <<v.server, v.method, stat.code>>,
                                              IF stat.now > v.begin THEN stat.now - v.begin ELSE 0),
                      !.reqsTotal = WithAdd(@, <<v.server, v.method, stat.code>>, 1),
                      !.reqsPending = WithAdd(@, <<v.server, v.method>>, -1)]
      [] stat.kind = "InHeader" ->
            [m EXCEPT !.bytesRecv = WithObserve(@, <<v.server, v.method, header>>, stat.WireLength)]
      [] stat.kind = "InPayload" ->
            [m EXCEPT !.bytesRecv = WithObserve(@, <<v.server, v.method, payload>>, stat.WireLength)]
      [] stat.kind = "InTrailer" ->
            [m EXCEPT !.bytesRecv = WithObserve(@, <<v.server, v.method, trailer>>, stat.WireLength)]
      [] stat.kind = "OutHeader" ->
            [m EXCEPT !.bytesSent = WithObserve(@, <<v.server, v.method, header>>, 0)]
      [] stat.kind = "OutPayload" ->
            [m EXCEPT !.bytesSent = WithObserve(@, <<v.server, v.method, payload>>, stat.WireLength)]
      [] stat.kind = "OutTrailer" ->
            [m EXCEPT !.bytesSent = WithObserve(@, <<v.server, v.method, trailer>>, stat.WireLength)]

\* The switch of handler.HandleConn on the metrics m.
HandleConnOn(m, kind) ==
    IF kind = "ConnBegin"
    THEN [m EXCEPT !.connsOpen = @ + 1, !.connsTotal = @ + 1]
    ELSE [m EXCEPT !.connsOpen = @ - 1]

\* Metrics.InitServer: the body of the loop over info.Methods for one
\* method.  A method called on a nil *HistogramVec panics.
InitServerMethod(m, srvName, meth, code) ==
    LET m1 == [m EXCEPT !.reqsPending = GetMetricWithLabelValuesOf(@, <<srvName, meth.Name>>, 2, 0)]
        m2 == [m1 EXCEPT !.reqsTotal = CreateAll(@, {<<srvName, meth.Name, c>> : c \in code}, 3, 0)]
        m3 == IF ~m2.latency.nil
              THEN [m2 EXCEPT !.latency.vec =
                        GetMetricWithLabelValuesOf(@, <<srvName, meth.Name>>, 3, [num |-> 0, sum |-> 0])]
              ELSE m2
        m4 == IF ~m3.latency.nil
              THEN IF m3.bytesRecv.nil
                   THEN [m3 EXCEPT !.panicked = TRUE]
                   ELSE [m3 EXCEPT !.bytesRecv.vec =
                            CreateAll(@, {<<srvName, meth.Name, f>> : f \in Frames}, 3, [num |-> 0, sum |-> 0])]
              ELSE m3
    IN  IF m4.panicked THEN m4
        ELSE IF ~m4.latency.nil
             THEN IF m4.bytesSent.nil
                  THEN [m4 EXCEPT !.panicked = TRUE]
                  ELSE [m4 EXCEPT !.bytesSent.vec =
                            CreateAll(@, {<<srvName, meth.Name, f>> : f \in Frames}, 3, [num |-> 0, sum |-> 0])]
             ELSE m4

\* Metrics.InitServer: the loop over info.Methods, in the order of the
\* slice, which a panic leaves.
RECURSIVE InitServerMethods(_, _, _, _)
InitServerMethods(m, srvName, meths, code) ==
    IF meths = <<>> \/ m.panicked THEN m
    ELSE InitServerMethods(InitServerMethod(m, srvName, Head(meths), code), srvName, Tail(meths), code)

\* The orders info.Methods can list the methods of a service in.
MethodOrders(srvName) ==
    {q \in [1..Cardinality(ServiceInfo[srvName]) -> ServiceInfo[srvName]] :
        \A i, j \in DOMAIN q : i # j => q[i] # q[j]}

\* --------------------------------------------------------------- the model
\* The goroutines that call Observe on the handler's observers, and the
\* position of one that is in no call.
Goroutines == 1..MaxGoroutines
Idle == [pc |-> "idle"]

\* The key under which this handler stores a call's rpcInfo in the context,
\* and the key under which the other handler of the process does.
Key == IF rev = "handlerKey" THEN thisHandler ELSE rpcInfoKey
OtherKey == IF rev = "handlerKey" THEN otherHandler ELSE rpcInfoKey

Background == [k \in {thisHandler, otherHandler, rpcInfoKey} |-> NoRec]

\* The context of the incoming call, tagged by the other handler.
OuterCtx == [Background EXCEPT ![OtherKey] = OuterRec]

\* The rpcInfo the other handler attached to the incoming call.
OuterInfo == [info |-> [typ |-> unary, server |-> <<"o">>, method |-> <<"q">>], begin |-> 0]

\* A free call slot.  warm records whether warm-up had registered the call's
\* method when the call was first seen.
NoCall == [phase |-> "none", name |-> <<>>, tagged |-> FALSE, wrapped |-> FALSE, warm |-> FALSE]

InitCommon ==
    /\ \E l \in OptionLists : cfg = newMetrics(l)
    /\ methods = Empty
    /\ reqsPending = Empty
    /\ reqsTotal = Empty
    /\ latency = Empty
    /\ sentBytes = Empty
    /\ recvBytes = Empty
    /\ rec = (OuterRec :> OuterInfo)
    /\ calls = [c \in CallIds |-> NoCall]
    /\ ctx = [c \in CallIds |-> Background]
    /\ statsCtx = [c \in CallIds |-> Background]
    /\ started = 0
    /\ nframes = 0
    /\ inits = <<>>
    /\ connsOpen = 0
    /\ connsTotal = 0
    /\ conns = [opened |-> 0, closed |-> 0, orderly |-> TRUE]
    /\ observing = [g \in Goroutines |-> Idle]
    /\ resolving = [g \in Goroutines |-> Idle]
    /\ options = options0

Init ==
    /\ rev = "handlerKey"
    /\ InitCommon
    /\ handler = NewHandler(SubsystemOpts0, SubsystemOpts0)
    /\ handlerServer = [r \in Runs |-> NewMetrics(SubsystemOpts0)]

InitProcessKey ==
    /\ rev = "processKey"
    /\ InitCommon
    /\ handler = NewHandler(SubsystemOpts0, SubsystemOpts0)
    /\ handlerServer = [r \in Runs |-> NewMetrics(SubsystemOpts0)]

\* The option sets the client and the server subsystem are built from.
HandlerOpts == {SubsystemOpts0, [BytesRecv |-> FALSE, BytesSent |-> TRUE, Latency |-> TRUE]}

\* One Metrics of the first API, its subsystems built from any two of them.
InitHandler ==
    /\ rev = "processKey"
    /\ InitCommon
    /\ cfg = newMetrics(<<>>)
    /\ handlerServer = [r \in Runs |-> NewMetrics(SubsystemOpts0)]
    /\ \E c \in HandlerOpts, sv \in HandlerOpts : handler = NewHandler(c, sv)

\* Two Metrics of the first API, built from any two option sets.
InitMetrics ==
    /\ rev = "processKey"
    /\ InitCommon
    /\ handler = NewHandler(SubsystemOpts0, SubsystemOpts0)
    /\ handlerServer \in [Runs -> {NewMetrics(o) : o \in SubsystemOpts}]

\* -------------------------------------------------------------- operations
\* handler.init: warm-up of one method of a service.
initMethod(st, server, meth, codes, kinds) ==
    LET typ == grpcType(meth.IsClientStream, meth.IsServerStream)
        RECURSIVE initCodes(_, _)
        initCodes(s, cs) ==
            IF cs = {} THEN s
            ELSE LET c == CHOOSE x \in cs : TRUE
                 IN  initCodes(
                        [s EXCEPT
                            !.reqsTotal = GetMetricWithLabelValues(@, <<typ, server, meth.Name, c>>, kinds.reqsTotal),
                            !.latency = ObserverInit(@, <<typ, server, meth.Name, c>>, kinds.latency)],
                        cs \ {c})
        RECURSIVE initFrames(_, _)
        initFrames(s, fs) ==
            IF fs = {} THEN s
            ELSE LET f == CHOOSE x \in fs : TRUE
                 IN  initFrames(
                        [s EXCEPT
                            !.sentBytes = ObserverInit(@, <<typ, server, meth.Name, f>>, kinds.sentBytes),
                            !.recvBytes = ObserverInit(@, <<typ, server, meth.Name, f>>, kinds.recvBytes)],
                        fs \ {f})
        stored == [st EXCEPT
                     !.methods = [n \in DOMAIN @ \cup {FullName(server, meth.Name)} |->
                                    IF n = FullName(server, meth.Name)
                                    THEN [typ |-> typ, server |-> server, method |-> meth.Name]
                                    ELSE @[n]],
                     !.reqsPending = GetMetricWithLabelValues(@, <<typ, server, meth.Name>>, kinds.reqsPending)]
    IN  initFrames(initCodes(stored, codes), Frames)

RECURSIVE initMethods(_, _, _, _, _)
initMethods(st, server, meths, codes, kinds) ==
    IF meths = {} THEN st
    ELSE LET m == CHOOSE x \in meths : TRUE
         IN  initMethods(initMethod(st, server, m, codes, kinds), server, meths \ {m}, codes, kinds)

\* handler.init(server, methods, codes), called by ClientMetrics.Init and
\* ServerMetrics.Init for every service of the grpc.Server.
init(server, meths, codes) ==
    /\ Len(inits) < MaxInits
    /\ LET st == initMethods([methods |-> methods, reqsPending |-> reqsPending,
                              reqsTotal |-> reqsTotal, latency |-> latency,
                              sentBytes |-> sentBytes, recvBytes |-> recvBytes],
                             server, meths, codes, cfg)
       IN  /\ methods' = st.methods
           /\ reqsPending' = st.reqsPending
           /\ reqsTotal' = st.reqsTotal
           /\ latency' = st.latency
           /\ sentBytes' = st.sentBytes
           /\ recvBytes' = st.recvBytes
    /\ inits' = Append(inits, [server |-> server, methods |-> meths, codes |-> codes])
    /\ UNCHANGED <<rev, cfg, handler, options, handlerServer, resolving, observing, connsOpen, connsTotal, conns, rec, calls, ctx, statsCtx, started, nframes>>

\* A faulty variant of methodInfo: a miss is never cached.
methodInfo_NeverStore(reg, method, typ) ==
    IF method \in DOMAIN reg
    THEN [info |-> reg[method], methods |-> reg]
    ELSE LET sm == splitFullMethodName(method)
         IN  [info |-> [typ |-> typ, server |-> sm[1], method |-> sm[2]], methods |-> reg]

\* A faulty variant of methodInfo: the registry is not consulted.
methodInfo_NoCache(reg, method, typ) ==
    LET sm == splitFullMethodName(method)
        info == [typ |-> typ, server |-> sm[1], method |-> sm[2]]
    IN  [info |-> info,
         methods |-> IF typ # unknown /\ method \notin DOMAIN reg THEN reg @@ (method :> info) ELSE reg]

\* A faulty variant of methodInfo: a miss is cached whatever the fallback type.
methodInfo_StoreUnknown(reg, method, typ) ==
    IF method \in DOMAIN reg
    THEN [info |-> reg[method], methods |-> reg]
    ELSE LET sm == splitFullMethodName(method)
             info == [typ |-> typ, server |-> sm[1], method |-> sm[2]]
         IN  [info |-> info, methods |-> reg @@ (method :> info)]

\* handler.methodInfo(method, typ): the MethodInfo returned and the registry left.
methodInfo(reg, method, typ) ==
    IF method \in DOMAIN reg
    THEN [info |-> reg[method], methods |-> reg]
    ELSE LET sm == splitFullMethodName(method)
             info == [typ |-> typ, server |-> sm[1], method |-> sm[2]]
         IN  [info |-> info,
              methods |-> IF typ # unknown THEN reg @@ (method :> info) ELSE reg]

\* The first operation on a call receives the context the application or the
\* transport made for it (background, or derived from the incoming call's
\* context) and the call's full method name; later ones receive the context
\* the earlier ones returned.
Fresh(c) ==
    /\ calls[c].phase = "none"
    /\ started < MaxCalls
    /\ \A d \in CallIds : d < c => calls[d].phase # "none"

Admits(c, name, nested) ==
    \/ Fresh(c)
    \/ /\ calls[c].phase = "open"
       /\ name = calls[c].name
       /\ nested = (ctx[c][OtherKey] # NoRec)

CtxIn(c, nested) ==
    IF calls[c].phase = "none"
    THEN IF nested THEN OuterCtx ELSE Background
    ELSE ctx[c]

Started(c) == IF calls[c].phase = "none" THEN started + 1 ELSE started

\* Full method names warm-up has registered so far.
WarmNames ==
    UNION {{FullName(inits[i].server, m.Name) : m \in inits[i].methods} : i \in 1..Len(inits)}

Warm(c, name) == IF calls[c].phase = "none" THEN name \in WarmNames ELSE calls[c].warm

\* &rpcInfo{...}: a new object, distinct from every live one.
NewRec == CHOOSE r \in 1..(2 * MaxCalls + 1) :
            /\ r \notin DOMAIN rec
            /\ \A q \in 1..(r - 1) : q \in DOMAIN rec

\* A faulty variant of TagRPC: the rpcInfo is built from the split name with
\* the type Unknown, and the registry is not asked.
TagRPC_NoLookup(c, name, nested) ==
    /\ Admits(c, name, nested)
    /\ ~calls[c].tagged
    /\ LET in == CtxIn(c, nested)
           sm == splitFullMethodName(name)
       IN  IF in[Key] # NoRec
           THEN /\ ctx' = [ctx EXCEPT ![c] = in]
                /\ statsCtx' = [statsCtx EXCEPT ![c] = in]
                /\ UNCHANGED rec
           ELSE /\ rec' = rec @@ (NewRec :> [info |-> [typ |-> unknown, server |-> sm[1], method |-> sm[2]],
                                             begin |-> 0])
                /\ ctx' = [ctx EXCEPT ![c] = [in EXCEPT ![Key] = NewRec]]
                /\ statsCtx' = [statsCtx EXCEPT ![c] = [in EXCEPT ![Key] = NewRec]]
    /\ calls' = [calls EXCEPT ![c].phase = "open", ![c].name = name, ![c].tagged = TRUE,
                              ![c].warm = Warm(c, name)]
    /\ started' = Started(c)
    /\ UNCHANGED <<rev, cfg, handler, options, handlerServer, resolving, observing, connsOpen, connsTotal, conns, methods, reqsPending, reqsTotal, latency, sentBytes, recvBytes, nframes, inits>>

\* handler.TagRPC(ctx, v) with v.FullMethodName = name
TagRPC(c, name, nested) ==
    /\ Admits(c, name, nested)
    /\ ~calls[c].tagged
    /\ LET in == CtxIn(c, nested)
           res == methodInfo(methods, name, unknown)
       IN  IF in[Key] # NoRec
           THEN /\ ctx' = [ctx EXCEPT ![c] = in]
                /\ statsCtx' = [statsCtx EXCEPT ![c] = in]
                /\ UNCHANGED <<methods, rec>>
           ELSE /\ methods' = res.methods
                /\ rec' = rec @@ (NewRec :> [info |-> res.info, begin |-> 0])
                /\ ctx' = [ctx EXCEPT ![c] = [in EXCEPT ![Key] = NewRec]]
                /\ statsCtx' = [statsCtx EXCEPT ![c] = [in EXCEPT ![Key] = NewRec]]
    /\ calls' = [calls EXCEPT ![c].phase = "open", ![c].name = name, ![c].tagged = TRUE,
                              ![c].warm = Warm(c, name)]
    /\ started' = Started(c)
    /\ UNCHANGED <<rev, cfg, handler, options, handlerServer, resolving, observing, connsOpen, connsTotal, conns, reqsPending, reqsTotal, latency, sentBytes, recvBytes, nframes, inits>>

\* A faulty variant of context: the interceptor counts the call as pending too.
context_Counting(c, name, nested, typ) ==
    /\ \/ Admits(c, name, nested)
       \/ calls[c].phase = "begun" /\ name = calls[c].name /\ nested = (ctx[c][OtherKey] # NoRec)
    /\ ~calls[c].wrapped
    /\ LET in == CtxIn(c, nested)
           res == methodInfo(methods, name, typ)
       IN  /\ methods' = res.methods
           /\ reqsPending' = Add(reqsPending, <<res.info.typ, res.info.server, res.info.method>>,
                                 1, cfg.reqsPending)
           /\ IF in[Key] # NoRec
              THEN /\ rec' = [rec EXCEPT ![in[Key]].info = res.info]
                   /\ ctx' = [ctx EXCEPT ![c] = in]
              ELSE /\ rec' = rec @@ (NewRec :> [info |-> res.info, begin |-> 0])
                   /\ ctx' = [ctx EXCEPT ![c] = [in EXCEPT ![Key] = NewRec]]
    /\ calls' = [calls EXCEPT ![c].phase = IF @ = "none" THEN "open" ELSE @,
                              ![c].name = name, ![c].wrapped = TRUE,
                              ![c].warm = Warm(c, name)]
    /\ started' = Started(c)
    /\ UNCHANGED <<rev, cfg, handler, options, handlerServer, resolving, observing, connsOpen, connsTotal, conns, reqsTotal, latency, sentBytes, recvBytes, statsCtx, nframes, inits>>

\* A faulty variant of context: a new rpcInfo is attached whatever the context holds.
context_Attach(c, name, nested, typ) ==
    /\ \/ Admits(c, name, nested)
       \/ calls[c].phase = "begun" /\ name = calls[c].name /\ nested = (ctx[c][OtherKey] # NoRec)
    /\ ~calls[c].wrapped
    /\ LET in == CtxIn(c, nested)
           res == methodInfo(methods, name, typ)
       IN  /\ methods' = res.methods
           /\ rec' = rec @@ (NewRec :> [info |-> res.info, begin |-> 0])
           /\ ctx' = [ctx EXCEPT ![c] = [in EXCEPT ![Key] = NewRec]]
    /\ calls' = [calls EXCEPT ![c].phase = IF @ = "none" THEN "open" ELSE @,
                              ![c].name = name, ![c].wrapped = TRUE,
                              ![c].warm = Warm(c, name)]
    /\ started' = Started(c)
    /\ UNCHANGED <<rev, cfg, handler, options, handlerServer, resolving, observing, connsOpen, connsTotal, conns, reqsPending, reqsTotal, latency, sentBytes, recvBytes, statsCtx,
                   nframes, inits>>

\* A faulty variant of context: the rpcInfo found is replaced as a whole, its
\* begin time with it.
context_ResetBegin(c, name, nested, typ) ==
    /\ \/ Admits(c, name, nested)
       \/ calls[c].phase = "begun" /\ name = calls[c].name /\ nested = (ctx[c][OtherKey] # NoRec)
    /\ ~calls[c].wrapped
    /\ LET in == CtxIn(c, nested)
           res == methodInfo(methods, name, typ)
       IN  /\ methods' = res.methods
           /\ IF in[Key] # NoRec
              THEN /\ rec' = [rec EXCEPT ![in[Key]] = [info |-> res.info, begin |-> 0]]
                   /\ ctx' = [ctx EXCEPT ![c] = in]
              ELSE /\ rec' = rec @@ (NewRec :> [info |-> res.info, begin |-> 0])
                   /\ ctx' = [ctx EXCEPT ![c] = [in EXCEPT ![Key] = NewRec]]
    /\ calls' = [calls EXCEPT ![c].phase = IF @ = "none" THEN "open" ELSE @,
                              ![c].name = name, ![c].wrapped = TRUE,
                              ![c].warm = Warm(c, name)]
    /\ started' = Started(c)
    /\ UNCHANGED <<rev, cfg, handler, options, handlerServer, resolving, observing, connsOpen, connsTotal, conns, reqsPending, reqsTotal, latency, sentBytes, recvBytes, statsCtx,
                   nframes, inits>>

\* handler.context(ctx, method, typ), as called by the four interceptors
\* (the unary ones pass typ = unary, the stream ones grpcType of their flags).
context(c, name, nested, typ) ==
    /\ \/ Admits(c, name, nested)
       \/ calls[c].phase = "begun" /\ name = calls[c].name /\ nested = (ctx[c][OtherKey] # NoRec)
    /\ ~calls[c].wrapped
    /\ LET in == CtxIn(c, nested)
           res == methodInfo(methods, name, typ)
       IN  /\ methods' = res.methods
           /\ IF in[Key] # NoRec
              THEN /\ rec' = [rec EXCEPT ![in[Key]].info = res.info]
                   /\ ctx' = [ctx EXCEPT ![c] = in]
              ELSE /\ rec' = rec @@ (NewRec :> [info |-> res.info, begin |-> 0])
                   /\ ctx' = [ctx EXCEPT ![c] = [in EXCEPT ![Key] = NewRec]]
    /\ calls' = [calls EXCEPT ![c].phase = IF @ = "none" THEN "open" ELSE @,
                              ![c].name = name, ![c].wrapped = TRUE,
                              ![c].warm = Warm(c, name)]
    /\ started' = Started(c)
    /\ UNCHANGED <<rev, cfg, handler, options, handlerServer, resolving, observing, connsOpen, connsTotal, conns, reqsPending, reqsTotal, latency, sentBytes, recvBytes, statsCtx,
                   nframes, inits>>

\* The stats context of call c is lost: the events that follow are delivered
\* with a context that does not hold the value TagRPC attached (a wrapping
\* stats.Handler that tags with its own context, say).
LoseContext(c) ==
    /\ calls[c].phase \in {"open", "begun"}
    /\ calls[c].tagged
    /\ statsCtx[c][Key] # NoRec
    /\ statsCtx' = [statsCtx EXCEPT ![c] = Background]
    /\ UNCHANGED <<rev, cfg, handler, options, handlerServer, resolving, observing, connsOpen, connsTotal, conns, methods, reqsPending, reqsTotal, latency, sentBytes, recvBytes,
                   rec, calls, ctx, started, nframes, inits>>

\* A faulty variant of HandleBegin: without an rpcInfo the call is counted
\* under Unknown labels.
HandleBegin_NoCheck(c, BeginTime) ==
    /\ calls[c].phase = "open"
    /\ calls[c].tagged
    /\ LET r == statsCtx[c][Key]
       IN  IF r = NoRec
           THEN /\ reqsPending' = Add(reqsPending, <<unknown, UnknownName, UnknownName>>, 1,
                                      cfg.reqsPending)
                /\ UNCHANGED rec
           ELSE LET v == rec[r].info
                IN  /\ rec' = [rec EXCEPT ![r].begin = BeginTime]
                    /\ reqsPending' = Add(reqsPending, <<v.typ, v.server, v.method>>, 1, cfg.reqsPending)
    /\ calls' = [calls EXCEPT ![c].phase = "begun"]
    /\ UNCHANGED <<rev, cfg, handler, options, handlerServer, resolving, observing, connsOpen, connsTotal, conns, methods, reqsTotal, latency, sentBytes, recvBytes, ctx, statsCtx,
                   started, nframes, inits>>

\* A faulty variant of HandleBegin: the labels are resolved from the registry
\* again instead of being read from the rpcInfo.
HandleBegin_Resolve(c, BeginTime) ==
    /\ calls[c].phase = "open"
    /\ calls[c].tagged
    /\ LET r == statsCtx[c][Key]
       IN  IF r = NoRec
           THEN UNCHANGED <<rec, reqsPending>>
           ELSE LET v == methodInfo(methods, calls[c].name, rec[r].info.typ).info
                IN  /\ rec' = [rec EXCEPT ![r].begin = BeginTime]
                    /\ reqsPending' = Add(reqsPending, <<v.typ, v.server, v.method>>, 1, cfg.reqsPending)
    /\ calls' = [calls EXCEPT ![c].phase = "begun"]
    /\ UNCHANGED <<rev, cfg, handler, options, handlerServer, resolving, observing, connsOpen, connsTotal, conns, methods, reqsTotal, latency, sentBytes, recvBytes, ctx, statsCtx,
                   started, nframes, inits>>

\* handler.HandleRPC(ctx, stat) for a stats.Begin with s.BeginTime = BeginTime
HandleBegin(c, BeginTime) ==
    /\ calls[c].phase = "open"
    /\ calls[c].tagged
    /\ LET r == statsCtx[c][Key]
       IN  IF r = NoRec
           THEN UNCHANGED <<rec, reqsPending>>
           ELSE LET v == rec[r].info
                IN  /\ rec' = [rec EXCEPT ![r].begin = BeginTime]
                    /\ reqsPending' = Add(reqsPending, <<v.typ, v.server, v.method>>, 1, cfg.reqsPending)
    /\ calls' = [calls EXCEPT ![c].phase = "begun"]
    /\ UNCHANGED <<rev, cfg, handler, options, handlerServer, resolving, observing, connsOpen, connsTotal, conns, methods, reqsTotal, latency, sentBytes, recvBytes, ctx, statsCtx,
                   started, nframes, inits>>

\* The contexts of call c go out of scope: an rpcInfo that no other context
\* reaches is garbage.
Release(c) ==
    LET live == {OuterRec} \cup
                UNION {{ctx[d][k], statsCtx[d][k]} : d \in CallIds \ {c},
                                                      k \in {thisHandler, otherHandler, rpcInfoKey}}
    IN  [x \in DOMAIN rec \cap live |-> rec[x]]

\* A faulty variant of HandleEnd: the pending gauge is not decremented.
HandleEnd_NoDec(c, code, t) ==
    /\ calls[c].phase = "begun"
    /\ LET r == statsCtx[c][Key]
           v == rec[r].info
       IN  /\ r # NoRec
           /\ t >= rec[r].begin
           /\ latency' = Observe(latency, t - rec[r].begin,
                                 <<v.typ, v.server, v.method, code>>, cfg.latency)
           /\ reqsTotal' = Add(reqsTotal, <<v.typ, v.server, v.method, code>>, 1, cfg.reqsTotal)
    /\ rec' = Release(c)
    /\ calls' = [calls EXCEPT ![c] = NoCall]
    /\ ctx' = [ctx EXCEPT ![c] = Background]
    /\ statsCtx' = [statsCtx EXCEPT ![c] = Background]
    /\ UNCHANGED <<rev, cfg, handler, options, handlerServer, resolving, observing, connsOpen, connsTotal, conns, methods, reqsPending, sentBytes, recvBytes, started, nframes, inits>>

\* A faulty variant of HandleEnd: a code is counted only under a series that
\* already exists.
HandleEnd_WarmedOnly(c, code, t) ==
    /\ calls[c].phase = "begun"
    /\ LET r == statsCtx[c][Key]
       IN  IF r = NoRec
           THEN UNCHANGED <<latency, reqsTotal, reqsPending>>
           ELSE LET v == rec[r].info
                    lvs == <<v.typ, v.server, v.method, code>>
                IN  /\ t >= rec[r].begin
                    /\ latency' = IF lvs \in DOMAIN latency
                                  THEN Observe(latency, t - rec[r].begin, lvs, cfg.latency)
                                  ELSE latency
                    /\ reqsTotal' = IF lvs \in DOMAIN reqsTotal
                                    THEN Add(reqsTotal, lvs, 1, cfg.reqsTotal)
                                    ELSE reqsTotal
                    /\ reqsPending' = Add(reqsPending, <<v.typ, v.server, v.method>>, -1, cfg.reqsPending)
    /\ rec' = Release(c)
    /\ calls' = [calls EXCEPT ![c] = NoCall]
    /\ ctx' = [ctx EXCEPT ![c] = Background]
    /\ statsCtx' = [statsCtx EXCEPT ![c] = Background]
    /\ UNCHANGED <<rev, cfg, handler, options, handlerServer, resolving, observing, connsOpen, connsTotal, conns, methods, sentBytes, recvBytes, started, nframes, inits>>

\* handler.HandleRPC(ctx, stat) for a stats.End with status code `code`,
\* handled when the clock reads t (time.Since(v.begin) = t - v.begin).
HandleEnd(c, code, t) ==
    /\ calls[c].phase = "begun"
    /\ LET r == statsCtx[c][Key]
       IN  IF r = NoRec
           THEN UNCHANGED <<latency, reqsTotal, reqsPending>>
           ELSE LET v == rec[r].info
                IN  /\ t >= rec[r].begin
                    /\ latency' = Observe(latency, t - rec[r].begin,
                                          <<v.typ, v.server, v.method, code>>, cfg.latency)
                    /\ reqsTotal' = Add(reqsTotal, <<v.typ, v.server, v.method, code>>, 1, cfg.reqsTotal)
                    /\ reqsPending' = Add(reqsPending, <<v.typ, v.server, v.method>>, -1, cfg.reqsPending)
    /\ rec' = Release(c)
    /\ calls' = [calls EXCEPT ![c] = NoCall]
    /\ ctx' = [ctx EXCEPT ![c] = Background]
    /\ statsCtx' = [statsCtx EXCEPT ![c] = Background]
    /\ UNCHANGED <<rev, cfg, handler, options, handlerServer, resolving, observing, connsOpen, connsTotal, conns, methods, sentBytes, recvBytes, started, nframes, inits>>

\* A faulty variant of HandleIn: the inbound frame is recorded as sent bytes.
HandleIn_Sent(c, frame, WireLength) ==
    /\ calls[c].phase = "begun"
    /\ nframes < MaxFrames
    /\ LET r == statsCtx[c][Key]
       IN  IF r = NoRec
           THEN UNCHANGED sentBytes
           ELSE LET v == rec[r].info
                IN  sentBytes' = Observe(sentBytes, WireLength,
                                         <<v.typ, v.server, v.method, frame>>, cfg.sentBytes)
    /\ nframes' = nframes + 1
    /\ UNCHANGED <<rev, cfg, handler, options, handlerServer, resolving, observing, connsOpen, connsTotal, conns, methods, reqsPending, reqsTotal, latency, recvBytes,
                   rec, calls, ctx, statsCtx, started, inits>>

\* handler.HandleRPC(ctx, stat) for InHeader, InPayload, InTrailer
HandleIn(c, frame, WireLength) ==
    /\ calls[c].phase = "begun"
    /\ nframes < MaxFrames
    /\ LET r == statsCtx[c][Key]
       IN  IF r = NoRec
           THEN UNCHANGED recvBytes
           ELSE LET v == rec[r].info
                IN  recvBytes' = Observe(recvBytes, WireLength,
                                         <<v.typ, v.server, v.method, frame>>, cfg.recvBytes)
    /\ nframes' = nframes + 1
    /\ UNCHANGED <<rev, cfg, handler, options, handlerServer, resolving, observing, connsOpen, connsTotal, conns, methods, reqsPending, reqsTotal, latency, sentBytes,
                   rec, calls, ctx, statsCtx, started, inits>>

\* A faulty variant of OutValue: the trailer's wire length is recorded.
OutValue_Wire(frame, WireLength) == IF frame = header THEN 0 ELSE WireLength

\* The value HandleRPC records for an outbound frame.
OutValue(frame, WireLength) ==
    CASE frame = header  -> 0
      [] frame = payload -> WireLength
      [] frame = trailer -> IF rev = "handlerKey" THEN 0 ELSE WireLength

\* handler.HandleRPC(ctx, stat) for OutHeader, OutPayload, OutTrailer
HandleOut(c, frame, WireLength) ==
    /\ calls[c].phase = "begun"
    /\ nframes < MaxFrames
    /\ LET r == statsCtx[c][Key]
       IN  IF r = NoRec
           THEN UNCHANGED sentBytes
           ELSE LET v == rec[r].info
                IN  sentBytes' = Observe(sentBytes, OutValue(frame, WireLength),
                                         <<v.typ, v.server, v.method, frame>>, cfg.sentBytes)
    /\ nframes' = nframes + 1
    /\ UNCHANGED <<rev, cfg, handler, options, handlerServer, resolving, observing, connsOpen, connsTotal, conns, methods, reqsPending, reqsTotal, latency, recvBytes,
                   rec, calls, ctx, statsCtx, started, inits>>

\* Label tuples and values the observers are called with directly.
LabelTuples ==
    {<<unary, <<"s">>, <<"u">>, "OK">>, <<unknown, UnknownName, UnknownName, "Canceled">>}

\* The vector of the observer named X after the step is vec.
SetObserver(X, vec) ==
    /\ latency' = IF X = "latency" THEN vec ELSE latency
    /\ sentBytes' = IF X = "sentBytes" THEN vec ELSE sentBytes
    /\ recvBytes' = IF X = "recvBytes" THEN vec ELSE recvBytes

\* The series an observer of the handler holds.
ObserverVec(X) ==
    CASE X = "latency"   -> latency
      [] X = "sentBytes" -> sentBytes
      [] X = "recvBytes" -> recvBytes

\* A faulty variant of ObserveSum: the first statement increments the count
\* as well as adding to the sum.
ObserveSum_Counting(g, X, v, lvs) ==
    /\ observing[g] = Idle
    /\ cfg[X] = "counters"
    /\ LET obs == ObserverInit(ObserverVec(X), lvs, cfg[X])
       IN  SetObserver(X, [obs EXCEPT ![lvs].sum = @ + v, ![lvs].num = @ + 1])
    /\ observing' = [observing EXCEPT ![g] = [pc |-> "sum", X |-> X, v |-> v, lvs |-> lvs]]
    /\ UNCHANGED <<rev, cfg, handler, options, handlerServer, resolving, connsOpen, connsTotal, conns, methods, reqsPending, reqsTotal,
                   rec, calls, ctx, statsCtx, started, nframes, inits>>

\* counters.Observe, first statement, run by goroutine g:
\* c.sum.WithLabelValues(lvs...).Add(v).  The series record of the model
\* holds both counters; num reads 0 until the second statement has created
\* and incremented the num child.
ObserveSum(g, X, v, lvs) ==
    /\ observing[g] = Idle
    /\ cfg[X] = "counters"
    /\ LET obs == ObserverInit(ObserverVec(X), lvs, cfg[X])
       IN  SetObserver(X, [obs EXCEPT ![lvs].sum = @ + v])
    /\ observing' = [observing EXCEPT ![g] = [pc |-> "sum", X |-> X, v |-> v, lvs |-> lvs]]
    /\ UNCHANGED <<rev, cfg, handler, options, handlerServer, resolving, connsOpen, connsTotal, conns, methods, reqsPending, reqsTotal,
                   rec, calls, ctx, statsCtx, started, nframes, inits>>

\* A faulty variant of ObserveNum: the count is stored as 1, not incremented.
ObserveNum_Store(g) ==
    /\ observing[g].pc = "sum"
    /\ LET o == observing[g]
       IN  SetObserver(o.X, [ObserverVec(o.X) EXCEPT ![o.lvs].num = 1])
    /\ observing' = [observing EXCEPT ![g].pc = "done"]
    /\ UNCHANGED <<rev, cfg, handler, options, handlerServer, resolving, connsOpen, connsTotal, conns, methods, reqsPending, reqsTotal,
                   rec, calls, ctx, statsCtx, started, nframes, inits>>

\* counters.Observe, second statement, run by goroutine g:
\* c.num.WithLabelValues(lvs...).Inc()
ObserveNum(g) ==
    /\ observing[g].pc = "sum"
    /\ LET o == observing[g]
       IN  SetObserver(o.X, [ObserverVec(o.X) EXCEPT ![o.lvs].num = @ + 1])
    /\ observing' = [observing EXCEPT ![g].pc = "done"]
    /\ UNCHANGED <<rev, cfg, handler, options, handlerServer, resolving, connsOpen, connsTotal, conns, methods, reqsPending, reqsTotal,
                   rec, calls, ctx, statsCtx, started, nframes, inits>>

\* histogram.Observe and noopObserver.Observe, run by goroutine g: one call
\* on the HistogramVec's child, or nothing.
ObserveWhole(g, X, v, lvs) ==
    /\ observing[g] = Idle
    /\ cfg[X] # "counters"
    /\ SetObserver(X, Observe(ObserverVec(X), v, lvs, cfg[X]))
    /\ observing' = [observing EXCEPT ![g] = [pc |-> "done", X |-> X, v |-> v, lvs |-> lvs]]
    /\ UNCHANGED <<rev, cfg, handler, options, handlerServer, resolving, connsOpen, connsTotal, conns, methods, reqsPending, reqsTotal,
                   rec, calls, ctx, statsCtx, started, nframes, inits>>

\* Goroutines that each call Observe once, at the same time.
NextConcurrent ==
    \/ \E g \in Goroutines, X \in Observers, v \in 0..MaxValue, lvs \in LabelTuples :
            ObserveSum(g, X, v, lvs)
    \/ \E g \in Goroutines : ObserveNum(g)
    \/ \E g \in Goroutines, X \in Observers, v \in 0..MaxValue, lvs \in LabelTuples :
            ObserveWhole(g, X, v, lvs)

\* handler.methodInfo(method, typ) run by goroutine g, up to its return on a
\* hit or to the point after the failed Load: x, _ := h.methods.Load(method)
methodInfoLoad(g, method, typ) ==
    /\ resolving[g] = Idle
    /\ resolving' = [resolving EXCEPT ![g] =
            IF method \in DOMAIN methods
            THEN [pc |-> "done", method |-> method, typ |-> typ, info |-> methods[method]]
            ELSE LET sm == splitFullMethodName(method)
                 IN  [pc |-> "missed", method |-> method, typ |-> typ,
                      info |-> [typ |-> typ, server |-> sm[1], method |-> sm[2]]]]
    /\ UNCHANGED <<rev, cfg, handler, options, handlerServer, observing, connsOpen, connsTotal, conns, methods, reqsPending,
                   reqsTotal, latency, sentBytes, recvBytes, rec, calls, ctx, statsCtx,
                   started, nframes, inits>>

\* A faulty variant of methodInfoStore: the Unknown fallback is stored too.
methodInfoStore_Always(g) ==
    /\ resolving[g].pc = "missed"
    /\ LET o == resolving[g]
       IN  methods' = [n \in DOMAIN methods \cup {o.method} |->
                          IF n = o.method THEN o.info ELSE methods[n]]
    /\ resolving' = [resolving EXCEPT ![g].pc = "done"]
    /\ UNCHANGED <<rev, cfg, handler, options, handlerServer, observing, connsOpen, connsTotal, conns, reqsPending,
                   reqsTotal, latency, sentBytes, recvBytes, rec, calls, ctx, statsCtx,
                   started, nframes, inits>>

\* handler.methodInfo run by goroutine g, from after the failed Load to its
\* return: if typ != unknown { h.methods.Store(method, info) }
methodInfoStore(g) ==
    /\ resolving[g].pc = "missed"
    /\ LET o == resolving[g]
       IN  methods' = IF o.typ = unknown THEN methods
                      ELSE [n \in DOMAIN methods \cup {o.method} |->
                               IF n = o.method THEN o.info ELSE methods[n]]
    /\ resolving' = [resolving EXCEPT ![g].pc = "done"]
    /\ UNCHANGED <<rev, cfg, handler, options, handlerServer, observing, connsOpen, connsTotal, conns, reqsPending,
                   reqsTotal, latency, sentBytes, recvBytes, rec, calls, ctx, statsCtx,
                   started, nframes, inits>>

\* The fallback types methodInfo is called with for a name: Unknown by
\* TagRPC, the type of the stream flags by the interceptors.
FallbackTypes(n) == {unknown} \cup {grpcType(f[1], f[2]) : f \in StreamFlags[n]}

\* Warm-up of the methods of a service, one or several at a time, next to
\* goroutines that each resolve one full method name.
NextRegistry ==
    \/ \E s \in DOMAIN ServiceInfo : \E ms \in (SUBSET ServiceInfo[s]) \ {{}} : init(s, ms, {})
    \/ \E g \in Goroutines, n \in FullNames : \E typ \in FallbackTypes(n) : methodInfoLoad(g, n, typ)
    \/ \E g \in Goroutines : methodInfoStore(g)

\* Metrics.InitServer(srv, code...) on both Metrics, for a server with the
\* one service srvName whose methods are listed in the order meths; no
\* code given means all codes.
InitServer(srvName, meths, code) ==
    /\ Len(inits) < MaxInits
    /\ \A r \in Runs : ~handlerServer[r].panicked
    /\ handlerServer' =
            [r \in Runs |-> InitServerMethods(handlerServer[r], srvName, meths,
                                              IF code = {} THEN AllCodes ELSE code)]
    /\ inits' = Append(inits, [server |-> srvName, methods |-> ServiceInfo[srvName], codes |-> code])
    /\ UNCHANGED <<rev, cfg, handler, options, resolving, observing, connsOpen, connsTotal, conns, methods, reqsPending,
                   reqsTotal, latency, sentBytes, recvBytes, rec, calls, ctx, statsCtx, started, nframes>>

\* Warm-ups of two Metrics of the first API.
NextMetrics ==
    \E s \in DOMAIN ServiceInfo, cs \in CodeLists : \E q \in MethodOrders(s) : InitServer(s, q, cs)

\* newMetrics: one turn of the loop, opt.applyOption(o).
ApplyOption(opt) ==
    /\ options' = applyOption(options, opt)
    /\ UNCHANGED <<rev, cfg, handler, handlerServer, resolving, observing, connsOpen, connsTotal, conns,
                   methods, reqsPending, reqsTotal, latency, sentBytes, recvBytes, rec, calls,
                   ctx, statsCtx, started, nframes, inits>>

\* Options applied one after the other to the options struct.
NextOptions == \E opt \in Options : ApplyOption(opt)

\* Inc, Dec on a prometheus.Gauge or Counter, or on the no-op one.
Step(val, d, kind) == IF kind = "noop" THEN val ELSE val + d

\* A faulty variant of HandleConnBegin: the connection is not added to the total.
HandleConnBegin_NoTotal ==
    /\ conns.opened < MaxConns
    /\ connsOpen' = Step(connsOpen, 1, cfg.connsOpen)
    /\ conns' = [conns EXCEPT !.opened = @ + 1]
    /\ UNCHANGED <<rev, cfg, handler, options, handlerServer, resolving, observing, connsTotal, methods, reqsPending, reqsTotal, latency, sentBytes,
                   recvBytes, rec, calls, ctx, statsCtx, started, nframes, inits>>

\* handler.HandleConn(ctx, stat) for a stats.ConnBegin
HandleConnBegin ==
    /\ conns.opened < MaxConns
    /\ connsOpen' = Step(connsOpen, 1, cfg.connsOpen)
    /\ connsTotal' = Step(connsTotal, 1, cfg.connsTotal)
    /\ conns' = [conns EXCEPT !.opened = @ + 1]
    /\ UNCHANGED <<rev, cfg, handler, options, handlerServer, resolving, observing, methods, reqsPending, reqsTotal, latency, sentBytes,
                   recvBytes, rec, calls, ctx, statsCtx, started, nframes, inits>>

\* handler.HandleConn(ctx, stat) for a stats.ConnEnd.  orderly records
\* whether every ConnEnd so far closed a connection that was open.
HandleConnEnd ==
    /\ conns.closed < MaxConns
    /\ connsOpen' = Step(connsOpen, -1, cfg.connsOpen)
    /\ conns' = [conns EXCEPT !.closed = @ + 1,
                              !.orderly = @ /\ conns.closed < conns.opened]
    /\ UNCHANGED <<rev, cfg, handler, options, handlerServer, resolving, observing, connsTotal, methods, reqsPending, reqsTotal, latency, sentBytes,
                   recvBytes, rec, calls, ctx, statsCtx, started, nframes, inits>>

\* Connection events, and calls seen by the stats hooks among them.
NextConns ==
    \/ HandleConnBegin
    \/ HandleConnEnd
    \/ \E c \in CallIds, n \in FullNames : TagRPC(c, n, FALSE)
    \/ \E c \in CallIds : HandleBegin(c, 1)
    \/ \E c \in CallIds, code \in Codes : HandleEnd(c, code, 1)

Observed == NumAll(latency) + NumAll(sentBytes) + NumAll(recvBytes)

\* o.Init(lvs...) on the observer named X.
ObsInit(X, lvs) ==
    /\ latency' = IF X = "latency" THEN ObserverInit(latency, lvs, cfg.latency) ELSE latency
    /\ sentBytes' = IF X = "sentBytes" THEN ObserverInit(sentBytes, lvs, cfg.sentBytes) ELSE sentBytes
    /\ recvBytes' = IF X = "recvBytes" THEN ObserverInit(recvBytes, lvs, cfg.recvBytes) ELSE recvBytes
    /\ UNCHANGED <<rev, cfg, handler, options, handlerServer, resolving, observing, connsOpen, connsTotal, conns, methods, reqsPending, reqsTotal, rec, calls, ctx, statsCtx,
                   started, nframes, inits>>

\* o.Observe(v, lvs...) on the observer named X.
ObsObserve(X, v, lvs) ==
    /\ Observed < MaxObserves
    /\ latency' = IF X = "latency" THEN Observe(latency, v, lvs, cfg.latency) ELSE latency
    /\ sentBytes' = IF X = "sentBytes" THEN Observe(sentBytes, v, lvs, cfg.sentBytes) ELSE sentBytes
    /\ recvBytes' = IF X = "recvBytes" THEN Observe(recvBytes, v, lvs, cfg.recvBytes) ELSE recvBytes
    /\ UNCHANGED <<rev, cfg, handler, options, handlerServer, resolving, observing, connsOpen, connsTotal, conns, methods, reqsPending, reqsTotal, rec, calls, ctx, statsCtx,
                   started, nframes, inits>>

\* Calls under arbitrary full method names, seen by the stats hooks only.
NextSplit ==
    \/ \E c \in CallIds, n \in SplitNames : TagRPC(c, n, FALSE)
    \/ \E c \in CallIds : HandleBegin(c, 1)
    \/ \E c \in CallIds, code \in Codes : HandleEnd(c, code, 1)

\* The three observers of a handler, called through the observer interface.
NextObservers ==
    \/ \E X \in Observers, l \in LabelTuples : ObsInit(X, l)
    \/ \E X \in Observers, l \in LabelTuples, v \in 0..MaxValue : ObsObserve(X, v, l)

\* Warm-up and calls from their tagging to their End.
Next ==
    \/ \E s \in DOMAIN ServiceInfo, cs \in CodeLists : init(s, ServiceInfo[s], cs)
    \/ \E c \in CallIds, n \in FullNames, p \in BOOLEAN : TagRPC(c, n, p)
    \/ \E c \in CallIds, n \in FullNames, p \in BOOLEAN : \E f \in StreamFlags[n] :
            context(c, n, p, grpcType(f[1], f[2]))
    \/ \E c \in CallIds, t \in 1..MaxTime : HandleBegin(c, t)
    \/ \E c \in CallIds, code \in Codes, t \in 1..MaxTime : HandleEnd(c, code, t)

\* Calls started from the background context, with their frame events,
\* without warm-up; the clock reads 1 throughout.
NextFrames ==
    \/ \E c \in CallIds, n \in FullNames : TagRPC(c, n, FALSE)
    \/ \E c \in CallIds, n \in FullNames : \E f \in StreamFlags[n] :
            context(c, n, FALSE, grpcType(f[1], f[2]))
    \/ \E c \in CallIds : HandleBegin(c, 1)
    \/ \E c \in CallIds, code \in Codes : HandleEnd(c, code, 1)
    \/ \E c \in CallIds, f \in Frames, w \in 1..MaxWire : HandleIn(c, f, w)
    \/ \E c \in CallIds, f \in Frames, w \in 1..MaxWire : HandleOut(c, f, w)

\* Warm-up, the interceptors of other calls resolving full method names, and
\* calls that the stats hooks tag.
NextTagging ==
    \/ \E s \in DOMAIN ServiceInfo : init(s, ServiceInfo[s], {})
    \/ \E g \in Goroutines, n \in FullNames : \E f \in StreamFlags[n] :
            methodInfoLoad(g, n, grpcType(f[1], f[2]))
    \/ \E g \in Goroutines : methodInfoStore(g)
    \/ \E c \in CallIds, n \in FullNames : TagRPC(c, n, FALSE)

\* The full method names of calls that are methods of a service.
ServedNames ==
    {n \in FullNames : \E s \in DOMAIN ServiceInfo : \E m \in ServiceInfo[s] : n = FullName(s, m.Name)}

\* One warm-up of a service and calls on its methods started from the
\* background context, with their frame events; the clock reads 1 throughout.
NextEvents ==
    \/ \E s \in DOMAIN ServiceInfo : Len(inits) = 0 /\ init(s, ServiceInfo[s], {})
    \/ \E c \in CallIds, n \in ServedNames : TagRPC(c, n, FALSE)
    \/ \E c \in CallIds, n \in ServedNames : \E f \in StreamFlags[n] :
            context(c, n, FALSE, grpcType(f[1], f[2]))
    \/ \E c \in CallIds : HandleBegin(c, 1)
    \/ \E c \in CallIds, code \in Codes : HandleEnd(c, code, 1)
    \/ \E c \in CallIds, f \in Frames, w \in 1..MaxWire : HandleIn(c, f, w)
    \/ \E c \in CallIds, f \in Frames, w \in 1..MaxWire : HandleOut(c, f, w)

\* Calls started from the background context and seen by the stats hooks
\* only, whose stats context can get lost, with their frame events, without
\* warm-up; the clock reads 1.
NextLost ==
    \/ \E c \in CallIds, n \in FullNames : TagRPC(c, n, FALSE)
    \/ \E c \in CallIds : LoseContext(c)
    \/ \E c \in CallIds : HandleBegin(c, 1)
    \/ \E c \in CallIds, code \in Codes : HandleEnd(c, code, 1)
    \/ \E c \in CallIds, f \in Frames, w \in 1..MaxWire : HandleIn(c, f, w)
    \/ \E c \in CallIds, f \in Frames, w \in 1..MaxWire : HandleOut(c, f, w)

Spec == Init /\ [][Next]_vars

SpecProcessKey == InitProcessKey /\ [][Next]_vars

SpecFrames == Init /\ [][NextFrames]_vars

SpecLost == Init /\ [][NextLost]_vars

SpecObservers == Init /\ [][NextObservers]_vars

SpecSplit == Init /\ [][NextSplit]_vars

SpecConns == Init /\ [][NextConns]_vars

SpecConcurrent == Init /\ [][NextConcurrent]_vars

SpecRegistry == Init /\ [][NextRegistry]_vars

SpecEvents == Init /\ [][NextEvents]_vars

SpecOptions == Init /\ [][NextOptions]_vars

\* (*handler).TagRPC of the first API: a new rpcInfo for the call.
HandlerTagRPC(name) ==
    /\ handler.events < MaxEvents
    /\ LET sm == splitFullMethodNameFirst(name)
       IN  handler' = [handler EXCEPT !.info = [ok |-> TRUE, server |-> sm[1], method |-> sm[2], begin |-> 0]]
    /\ UNCHANGED <<rev, cfg, options, handlerServer, resolving, observing, connsOpen, connsTotal, conns, methods,
                   reqsPending, reqsTotal, latency, sentBytes, recvBytes, rec, calls, ctx, statsCtx, started,
                   nframes, inits>>

\* (*handler).HandleRPC of the first API with stat.IsClient() = isClient;
\* without an rpcInfo in the context it returns at once.
HandlerHandleRPC(isClient, stat) ==
    /\ handler.events < MaxEvents
    /\ LET side == subsystemOf(isClient)
           v == handler.info
       IN  IF ~v.ok
           THEN handler' = [handler EXCEPT !.events = @ + 1]
           ELSE handler' = [handler EXCEPT ![side] = HandleRPCOn(@, v, stat),
                                           !.info.begin = IF stat.kind = "Begin" THEN stat.BeginTime ELSE @,
                                           !.events = @ + 1]
    /\ UNCHANGED <<rev, cfg, options, handlerServer, resolving, observing, connsOpen, connsTotal, conns, methods,
                   reqsPending, reqsTotal, latency, sentBytes, recvBytes, rec, calls, ctx, statsCtx, started,
                   nframes, inits>>

\* (*handler).HandleConn of the first API with stat.IsClient() = isClient.
HandlerHandleConn(isClient, kind) ==
    /\ handler.events < MaxEvents
    /\ handler' = [handler EXCEPT ![subsystemOf(isClient)] = HandleConnOn(@, kind),
                                  !.events = @ + 1]
    /\ UNCHANGED <<rev, cfg, options, handlerServer, resolving, observing, connsOpen, connsTotal, conns, methods,
                   reqsPending, reqsTotal, latency, sentBytes, recvBytes, rec, calls, ctx, statsCtx, started,
                   nframes, inits>>

\* Events of client and server calls and connections on one Metrics.
NextHandler ==
    \/ \E n \in FullNames : HandlerTagRPC(n)
    \/ \E isClient \in BOOLEAN, stat \in RPCStats : HandlerHandleRPC(isClient, stat)
    \/ \E isClient \in BOOLEAN, kind \in ConnStats : HandlerHandleConn(isClient, kind)

SpecMetrics == InitMetrics /\ [][NextMetrics]_vars

SpecTagging == Init /\ [][NextTagging]_vars

TypeOK ==
    /\ rev \in {"handlerKey", "processKey"}
    /\ started \in 0..MaxCalls


\* ------------------------------------------------------------------ claims
\* The method label of a call: the second part of its split full name.
MethodOf(name) == splitFullMethodName(name)[2]
MethodLabels == {MethodOf(n) : n \in FullNames} \cup {m.Name : m \in UNION {ServiceInfo[s] : s \in DOMAIN ServiceInfo}}

\* total-requests for (M, C) and pending-requests for M, summed over call
\* types and services.
TotalFor(vec, M, C) == SumVals(vec, {l \in DOMAIN vec : l[3] = M /\ l[4] = C})
PendingFor(vec, M) == SumVals(vec, {l \in DOMAIN vec : l[3] = M})

InFlight(M) == {c \in CallIds : calls[c].phase = "begun" /\ MethodOf(calls[c].name) = M}

C1_EndCounts ==
    \A c \in CallIds, code \in Codes, t \in 1..MaxTime :
        (HandleEnd(c, code, t) /\ cfg.reqsTotal = "real") =>
            \A M \in MethodLabels, C \in Codes :
                TotalFor(reqsTotal', M, C) =
                    TotalFor(reqsTotal, M, C)
                    + (IF M = MethodOf(calls[c].name) /\ C = code THEN 1 ELSE 0)

C1_PendingNet ==
    cfg.reqsPending = "real" =>
        \A M \in MethodLabels : PendingFor(reqsPending, M) = Cardinality(InFlight(M))

\* C1: a call that gets one Begin and one End with code C on method M adds
\* exactly 1 to total-requests for (M, C) summed over types and services
\* (and nothing to any other (M, C)), and pending-requests for M summed over
\* types and services always equals the number of calls on M in flight, so
\* it is back at its pre-call value when the call has ended.
C1_Completed == []C1_PendingNet /\ [][C1_EndCounts]_vars

\* A call on an unregistered method was tagged by the hook, begun under
\* Unknown, upgraded by the interceptor and ended under the concrete type.
C1_Witness ==
    /\ \A c \in CallIds : calls[c].phase = "none"
    /\ \E l \in DOMAIN reqsTotal : reqsTotal[l] = 1 /\ l[1] # unknown
    /\ \E l \in DOMAIN reqsPending : l[1] = unknown /\ reqsPending[l] = 1


\* The call type for a pair of stream flags.
TableType(isClientStream, isServerStream) ==
    CASE ~isClientStream /\ ~isServerStream -> unary
      [] isClientStream /\ ~isServerStream  -> clientStream
      [] ~isClientStream /\ isServerStream  -> serverStream
      [] isClientStream /\ isServerStream   -> bidiStream

\* The tuple warm-up registered a full method name under.
WarmTuple(name) ==
    LET i == CHOOSE j \in 1..Len(inits) : \E m \in inits[j].methods : FullName(inits[j].server, m.Name) = name
        m == CHOOSE x \in inits[i].methods : FullName(inits[i].server, x.Name) = name
    IN  <<TableType(m.IsClientStream, m.IsServerStream), inits[i].server, m.Name>>

\* No series of vec labelled Unknown for the service and method of tuple tp
\* is created or changed by the step.
UnknownUntouched(vec, vecN, tp) ==
    \A l \in DOMAIN vecN :
        (l[1] = unknown /\ l[2] = tp[2] /\ l[3] = tp[3]) => (l \in DOMAIN vec /\ vecN[l] = vec[l])

C2_Begin(c, t) ==
    LET tp == WarmTuple(calls[c].name)
    IN  /\ cfg.reqsPending = "real" => reqsPending'[tp] = Val(reqsPending, tp) + 1
        /\ UnknownUntouched(reqsPending, reqsPending', tp)

C2_End(c, code, t) ==
    LET tp == WarmTuple(calls[c].name)
        tc == tp \o <<code>>
    IN  /\ cfg.reqsTotal = "real" => reqsTotal'[tc] = Val(reqsTotal, tc) + 1
        /\ cfg.latency # "noop" => latency'[tc].num = Num(latency, tc) + 1
        /\ cfg.reqsPending = "real" => reqsPending'[tp] = Val(reqsPending, tp) - 1
        /\ UnknownUntouched(reqsPending, reqsPending', tp)
        /\ UnknownUntouched(reqsTotal, reqsTotal', tp)
        /\ UnknownUntouched(latency, latency', tp)

Once(kind) == IF kind = "noop" THEN 0 ELSE 1

C3_Tagging ==
    (\E c \in CallIds, n \in FullNames, p \in BOOLEAN :
        \/ TagRPC(c, n, p)
        \/ \E f \in StreamFlags[n] : context(c, n, p, grpcType(f[1], f[2])))
    => UNCHANGED <<reqsPending, reqsTotal, latency, sentBytes, recvBytes>>

C3_Begin ==
    (\E c \in CallIds, t \in 1..MaxTime : HandleBegin(c, t))
    => /\ SumAll(reqsPending') = SumAll(reqsPending) + Once(cfg.reqsPending)
       /\ UNCHANGED <<reqsTotal, latency, sentBytes, recvBytes>>

C3_End ==
    (\E c \in CallIds, code \in Codes, t \in 1..MaxTime : HandleEnd(c, code, t))
    => /\ SumAll(reqsTotal') = SumAll(reqsTotal) + Once(cfg.reqsTotal)
       /\ NumAll(latency') = NumAll(latency) + Once(cfg.latency)
       /\ SumAll(reqsPending') = SumAll(reqsPending) - Once(cfg.reqsPending)
       /\ UNCHANGED <<sentBytes, recvBytes>>

C3_In ==
    (\E c \in CallIds, f \in Frames, w \in 1..MaxWire : HandleIn(c, f, w))
    => /\ NumAll(recvBytes') = NumAll(recvBytes) + Once(cfg.recvBytes)
       /\ UNCHANGED <<reqsPending, reqsTotal, latency, sentBytes>>

C3_Out ==
    (\E c \in CallIds, f \in Frames, w \in 1..MaxWire : HandleOut(c, f, w))
    => /\ NumAll(sentBytes') = NumAll(sentBytes) + Once(cfg.sentBytes)
       /\ UNCHANGED <<reqsPending, reqsTotal, latency, recvBytes>>

\* C3: whether a call is seen by the stats hooks alone or by the hooks and
\* an interceptor, in either tagging order, every one of its events updates
\* each metric once, as it does on the hook path alone: Begin adds one to
\* pending, End adds one request and one latency observation and takes one
\* from pending, an inbound or outbound frame adds one observation to
\* recv-bytes or sent-bytes, and the two taggings update no metric.
C3_NoDoubleCount == [][C3_Tagging /\ C3_Begin /\ C3_End /\ C3_In /\ C3_Out]_vars

\* A call was both tagged by the hook and wrapped by the interceptor before
\* its Begin, got a frame event and ended: every series it touched is under
\* the interceptor's type and holds one event.
C3_Witness ==
    /\ \A c \in CallIds : calls[c].phase = "none"
    /\ started = 1
    /\ nframes = 1
    /\ \E l \in DOMAIN reqsTotal : l[1] = clientStream /\ reqsTotal[l] = 1
    /\ DOMAIN reqsPending = {<<clientStream, UnknownName, UnknownName>>}
    /\ \E l \in DOMAIN sentBytes : l[1] = clientStream /\ sentBytes[l].num = 1

\* The rpcInfo objects the contexts of call c reach under this handler's key.
RecordsOf(c) == {ctx[c][Key], statsCtx[c][Key]} \ {NoRec}

C4_OneRecord == \A c \in CallIds : Cardinality(RecordsOf(c)) <= 1

C4_Second ==
    \A c \in CallIds, n \in FullNames, p \in BOOLEAN :
        /\ (TagRPC(c, n, p) /\ calls[c].wrapped) =>
                /\ ctx'[c] = ctx[c]
                /\ statsCtx'[c] = ctx[c]
                /\ rec' = rec
        /\ \A f \in StreamFlags[n] :
            (context(c, n, p, grpcType(f[1], f[2])) /\ calls[c].tagged) =>
                LET r == ctx[c][Key]
                IN  /\ ctx'[c] = ctx[c]
                    /\ DOMAIN rec' = DOMAIN rec
                    /\ \A x \in DOMAIN rec : x # r => rec'[x] = rec[x]
                    /\ rec'[r].begin = rec[r].begin
                    /\ rec'[r].info.server = splitFullMethodName(n)[1]
                    /\ rec'[r].info.method = splitFullMethodName(n)[2]

\* C4: the contexts of a call reach at most one rpcInfo; the tagging that
\* runs second (TagRPC after the interceptor's context, or context after
\* TagRPC) returns the context it was given and allocates no rpcInfo, and
\* context running second writes the method's info into the existing rpcInfo
\* and leaves its begin time and every other rpcInfo alone.
C4_SingleRecord == []C4_OneRecord /\ [][C4_Second]_vars

\* A call tagged by the hook as Unknown and begun, whose one rpcInfo the
\* interceptor then upgraded to a concrete type.
C4_Witness ==
    \E c \in CallIds :
        /\ calls[c].phase = "begun" /\ calls[c].tagged /\ calls[c].wrapped
        /\ ctx[c][Key] = statsCtx[c][Key]
        /\ rec[ctx[c][Key]].info.typ = serverStream
        /\ rec[ctx[c][Key]].begin = 1
        /\ \E l \in DOMAIN reqsPending : l[1] = unknown /\ reqsPending[l] = 1

\* C5: the rpcInfo of the incoming call stays as the other handler left it,
\* no call of this handler takes it for its own, including a call started
\* from the incoming call's context, and two calls in flight never reach the
\* same rpcInfo.
C5_NoSharing ==
    /\ rec[OuterRec] = OuterInfo
    /\ \A c \in CallIds : OuterRec \notin RecordsOf(c)
    /\ \A c, d \in CallIds : c # d => RecordsOf(c) \cap RecordsOf(d) = {}

\* C6: when total-requests and latency are both enabled, every label tuple
\* has as many latency observations as counted requests.
C6_CountsAgree ==
    (cfg.reqsTotal = "real" /\ cfg.latency # "noop") =>
        \A l \in DOMAIN reqsTotal \cup DOMAIN latency : Val(reqsTotal, l) = Num(latency, l)

\* A call has ended on a tuple warm-up had not created, with latency kept as
\* sum and count: the tuple has one request and one observation.
C6_Witness ==
    /\ cfg.reqsTotal = "real" /\ cfg.latency = "counters"
    /\ Len(inits) = 1
    /\ \E l \in DOMAIN reqsTotal : l[4] = "Canceled" /\ reqsTotal[l] = 1 /\ latency[l].num = 1

C7_NoUnknown == \A n \in DOMAIN methods : methods[n].typ # unknown

C7_Kept == \A n \in DOMAIN methods : n \in DOMAIN methods' /\ methods'[n].typ # unknown

\* C7: whatever warm-ups and taggings have run, no registry entry has the
\* type Unknown, and an entry of the registry stays in it with a concrete type.
C7_Registry == []C7_NoUnknown /\ [][C7_Kept]_vars

\* Warm-up has filled the registry, and a call on a name the registry lacks
\* was tagged by the hook with Unknown.
C7_Witness ==
    /\ Len(inits) = 1
    /\ <<"u">> \notin DOMAIN methods
    /\ \E c \in CallIds :
        /\ calls[c].tagged /\ ~calls[c].wrapped
        /\ calls[c].name = <<"u">>
        /\ rec[statsCtx[c][Key]].info.typ = unknown

\* C8 as stated: after interception-path tagging with flags f the call's
\* rpcInfo holds the table's type for f, whatever the registry held.
C8_Table ==
    [][\A c \in CallIds, n \in FullNames, p \in BOOLEAN : \A f \in StreamFlags[n] :
            context(c, n, p, grpcType(f[1], f[2])) =>
                rec'[ctx'[c][Key]].info.typ = TableType(f[1], f[2])]_vars

\* C8: after interception-path tagging with flags f the call's rpcInfo holds
\* the table's type for f when the registry had no entry for the method
\* name, and the type of the registry's entry when it had one.
C8_TableOnMiss ==
    [][\A c \in CallIds, n \in FullNames, p \in BOOLEAN : \A f \in StreamFlags[n] :
            context(c, n, p, grpcType(f[1], f[2])) =>
                rec'[ctx'[c][Key]].info.typ =
                    IF n \in DOMAIN methods THEN methods[n].typ ELSE TableType(f[1], f[2])]_vars

\* Without warm-up, a call on /s/u wrapped with flags (true, true) holds
\* BidiStream and the registry has taken that type for the name.
C8_Witness ==
    /\ Len(inits) = 0
    /\ \E c \in CallIds :
        /\ calls[c].wrapped /\ calls[c].name = <<"/", "s", "/", "u">>
        /\ rec[ctx[c][Key]].info.typ = bidiStream
        /\ methods[<<"/", "s", "/", "u">>].typ = bidiStream

\* The series warm-up creates for metric vec of kind `kind` exist.
Present(vec, lvs, kind) == kind # "noop" => lvs \in DOMAIN vec

\* C9: for every warm-up done, every method of it with type T from the table
\* has a series pending[T,service,method], total-requests and latency series
\* [T,service,method,code] for every code given, and sent-bytes and
\* recv-bytes series [T,service,method,frame] for the three frames, for each
\* enabled metric; before any call has started all of them are zero.
C9_Prewarmed ==
    \A i \in 1..Len(inits) : \A m \in inits[i].methods :
        LET tp == <<TableType(m.IsClientStream, m.IsServerStream), inits[i].server, m.Name>>
        IN  /\ Present(reqsPending, tp, cfg.reqsPending)
            /\ \A code \in inits[i].codes :
                /\ Present(reqsTotal, tp \o <<code>>, cfg.reqsTotal)
                /\ Present(latency, tp \o <<code>>, cfg.latency)
            /\ \A f \in Frames :
                /\ Present(sentBytes, tp \o <<f>>, cfg.sentBytes)
                /\ Present(recvBytes, tp \o <<f>>, cfg.recvBytes)
            /\ started = 0 =>
                /\ \A l \in DOMAIN reqsPending : reqsPending[l] = 0
                /\ \A l \in DOMAIN reqsTotal : reqsTotal[l] = 0
                /\ \A l \in DOMAIN latency : latency[l] = Zero
                /\ \A l \in DOMAIN sentBytes : sentBytes[l] = Zero
                /\ \A l \in DOMAIN recvBytes : recvBytes[l] = Zero

\* Warm-up for code OK has run on the default metric set and no call has
\* started: the series of both methods are there.
C9_Witness ==
    /\ started = 0
    /\ Len(inits) = 1 /\ inits[1].codes = {"OK"}
    /\ cfg.recvBytes = "counters" /\ cfg.latency = "histogram"
    /\ Cardinality(DOMAIN reqsPending) = 2
    /\ Cardinality(DOMAIN reqsTotal) = 2
    /\ Cardinality(DOMAIN latency) = 2
    /\ Cardinality(DOMAIN recvBytes) = 6

\* Warm-up has been run before with the same arguments.
Repeated(server, meths, codes) ==
    \E i \in 1..Len(inits) :
        inits[i] = [server |-> server, methods |-> meths, codes |-> codes]

ClaimedCodes(cs) == IF cs = {} THEN AllCodes ELSE cs

\* C11: a warm-up given no codes pre-creates the total-requests series of
\* every registered method for each of the 17 gRPC codes, and a warm-up
\* given codes pre-creates, before any traffic, those codes only.
C11_DefaultCodes ==
    cfg.reqsTotal = "real" =>
        \A i \in 1..Len(inits) : \A m \in inits[i].methods :
            LET tp == <<TableType(m.IsClientStream, m.IsServerStream), inits[i].server, m.Name>>
            IN  /\ \A code \in ClaimedCodes(inits[i].codes) : tp \o <<code>> \in DOMAIN reqsTotal
                /\ (started = 0 /\ \A j \in 1..Len(inits) : inits[j].codes # {}) =>
                        \A l \in DOMAIN reqsTotal : \E j \in 1..Len(inits) : l[4] \in inits[j].codes

\* An event of call c is delivered by the step.
Event(c) ==
    \/ \E t \in 1..MaxTime : HandleBegin(c, t)
    \/ \E code \in Codes, t \in 1..MaxTime : HandleEnd(c, code, t)
    \/ \E f \in Frames, w \in 1..MaxWire : HandleIn(c, f, w) \/ HandleOut(c, f, w)

C12_Dropped ==
    \A c \in CallIds :
        (Event(c) /\ statsCtx[c][Key] = NoRec) =>
            /\ UNCHANGED <<methods, reqsPending, reqsTotal, latency, sentBytes, recvBytes>>
            /\ \A d \in CallIds \ {c} : \A r \in RecordsOf(d) : r \in DOMAIN rec' /\ rec'[r] = rec[r]

C12_Returns ==
    \A c \in CallIds :
        (calls[c].tagged /\ statsCtx[c][Key] = NoRec) =>
            /\ calls[c].phase = "open" => ENABLED HandleBegin(c, 1)
            /\ calls[c].phase = "begun" =>
                    ENABLED (HandleEnd(c, "OK", 1) \/ HandleIn(c, header, 1) \/ HandleOut(c, trailer, 1))

\* C12: a Begin, End or frame event delivered with a context that holds no
\* rpcInfo under the handler's key changes no metric series or value, no
\* registry entry and no other call's rpcInfo, and the handler takes it
\* (the event is handled, as a no-op).
C12_LostContext == []C12_Returns /\ [][C12_Dropped]_vars

\* A call that was begun and counted lost its stats context, and its End
\* was dropped: the call is over, no request is counted and the pending
\* series still holds it.
C12_Witness ==
    /\ started = 1
    /\ \A c \in CallIds : calls[c].phase = "none"
    /\ cfg.reqsPending = "real" /\ cfg.reqsTotal = "real"
    /\ \E l \in DOMAIN reqsPending : reqsPending[l] = 1
    /\ reqsTotal = Empty

\* The handler was built from option list l and l disables observer X.
DisabledBy(l, X) == cfg = newMetrics(l) /\ applyOptions(options0, l)[X].disable

\* C13: an observer that the options disable takes every Init and Observe
\* call, and whatever calls it has taken it sends no descriptor to Describe
\* and no series to Collect.
C13_DisabledObserver ==
    \A X \in Observers, l \in OptionLists :
        DisabledBy(l, X) =>
            /\ observerDescribe(cfg[X], observerName[X]) = {}
            /\ observerCollect(ObserverVec(X), cfg[X], observerName[X]) = {}
            /\ \A t \in LabelTuples :
                /\ ENABLED ObsInit(X, t)
                /\ Observed < MaxObserves => ENABLED ObsObserve(X, 0, t)

\* sent-bytes and recv-bytes are disabled and hold nothing, while latency,
\* kept as sum and count, has taken as many calls as the observers were given.
C13_Witness ==
    /\ cfg.sentBytes = "noop" /\ cfg.recvBytes = "noop" /\ cfg.latency = "counters"
    /\ sentBytes = Empty /\ recvBytes = Empty
    /\ NumAll(latency) = MaxObserves

\* The handler was built from option list l, which gives observer X the
\* NoBuckets option (last of its bucket options) and does not disable it.
NoBucketsBy(l, X) ==
    /\ cfg = newMetrics(l)
    /\ ~applyOptions(options0, l)[X].disable
    /\ \E i \in 1..Len(l) :
        /\ l[i].metric = X
        /\ \E j \in 1..Len(l[i].subs) :
            /\ l[i].subs[j] = NoBuckets
            /\ \A k \in (j + 1)..Len(l[i].subs) : l[i].subs[k].op # "Buckets"
        /\ \A k \in (i + 1)..Len(l) : l[k].metric # X

C14_Pair ==
    \A X \in Observers, l \in OptionLists :
        NoBucketsBy(l, X) =>
            /\ cfg[X] = "counters"
            /\ observerDescribe(cfg[X], observerName[X]) =
                    {<<observerName[X], "sum">>, <<observerName[X], "count">>}
            /\ \A s \in observerCollect(ObserverVec(X), cfg[X], observerName[X]) : s[2] # "bucket"

C14_Step ==
    \A X \in Observers, l \in OptionLists :
        NoBucketsBy(l, X) =>
            /\ \A t \in LabelTuples, v \in 0..MaxValue :
                ObsObserve(X, v, t) =>
                    /\ ObserverVec(X)'[t].num = Num(ObserverVec(X), t) + 1
                    /\ ObserverVec(X)'[t].sum = (IF t \in DOMAIN ObserverVec(X)
                                                 THEN ObserverVec(X)[t].sum ELSE 0) + v
                    /\ \A u \in DOMAIN ObserverVec(X)' \ {t} :
                            u \in DOMAIN ObserverVec(X) /\ ObserverVec(X)'[u] = ObserverVec(X)[u]
            /\ \A t \in LabelTuples :
                ObsInit(X, t) =>
                    /\ \A u \in DOMAIN ObserverVec(X) : ObserverVec(X)'[u] = ObserverVec(X)[u]
                    /\ \A u \in DOMAIN ObserverVec(X)' \ DOMAIN ObserverVec(X) :
                            ObserverVec(X)'[u] = Zero

\* C14: an observer given NoBuckets is the pair of counters: it describes a
\* sum and a count, exports no bucket series, starts every tuple at zero,
\* and every Observe(v) on a tuple adds 1 to the tuple's count and v to its
\* sum and touches no other tuple, so the count is the number of
\* observations and the sum their total.
C14_SumCount == []C14_Pair /\ [][C14_Step]_vars

\* Latency has NoBuckets and one tuple has taken the values 0 and 1: count
\* 2, sum 1.
C14_Witness ==
    /\ cfg.latency = "counters"
    /\ \E t \in DOMAIN latency : latency[t] = [num |-> 2, sum |-> 1]

\* Option list l gives observer X no Buckets and no NoBuckets option.
NoBucketOption(l, X) ==
    \A i \in 1..Len(l) :
        l[i].metric = X => \A j \in 1..Len(l[i].subs) : l[i].subs[j].op = "Disable"

\* The ladder an observer is claimed to default to.
DefaultLadder(X) == IF X = "latency" THEN DefaultLatencyBuckets ELSE DefaultBytesBuckets

\* C15: an enabled observer that is given no bucket option is a histogram
\* over its default ladder (the latency ladder for latency, the byte-size
\* ladder for sent-bytes and recv-bytes), and an enabled observer is the
\* sum+count pair only when its options leave it an empty bucket list
\* explicitly.
C15_DefaultLadders ==
    \A X \in Observers, l \in OptionLists :
        (cfg = newMetrics(l) /\ ~applyOptions(options0, l)[X].disable) =>
            /\ NoBucketOption(l, X) =>
                /\ cfg[X] = "histogram"
                /\ applyOptions(options0, l)[X].buckets = DefaultLadder(X)
            /\ cfg[X] = "counters" => ~NoBucketOption(l, X)

\* The split of a full method name as the claim words it: t is the name less
\* one leading separator, and <<service, method>> are the parts of t around
\* its first separator, or Unknown twice when t has none.
IsSplit(n, service, method) ==
    LET t == IF Len(n) > 0 /\ n[1] = "/" THEN Tail(n) ELSE n
    IN  IF \A i \in 1..Len(t) : t[i] # "/"
        THEN service = UnknownName /\ method = UnknownName
        ELSE /\ t = service \o <<"/">> \o method
             /\ \A i \in 1..Len(service) : service[i] # "/"

C17_Counts ==
    /\ cfg.connsTotal = "real" => connsTotal = conns.opened
    /\ cfg.connsOpen = "real" => connsOpen = conns.opened - conns.closed
    /\ (cfg.connsTotal = "real" /\ cfg.connsOpen = "real" /\ conns.orderly) =>
            (0 <= connsOpen /\ connsOpen <= connsTotal)

C17_Step ==
    /\ connsTotal' >= connsTotal
    /\ (HandleConnBegin \/ HandleConnEnd) =>
            UNCHANGED <<methods, reqsPending, reqsTotal, latency, sentBytes, recvBytes, rec>>

\* C17: connections_total is the number of ConnBegin events and never goes
\* down, connections_open is the number of ConnBegin less the number of
\* ConnEnd events and lies between 0 and connections_total as long as every
\* ConnEnd closed an open connection, and a connection event changes no
\* request metric.
C17_Connections == []C17_Counts /\ [][C17_Step]_vars

\* Two connections were opened and one closed while a call was pending.
C17_Witness ==
    /\ cfg.connsOpen = "real" /\ cfg.connsTotal = "real"
    /\ connsTotal = 2 /\ connsOpen = 1 /\ conns.orderly
    /\ \E l \in DOMAIN reqsPending : reqsPending[l] = 1

\* The series of observer vector obs after one more observation of value v
\* under the labels lvs, every other series as it was.
OneMore(obs, v, lvs) ==
    [l \in DOMAIN obs \cup {lvs} |->
        IF l = lvs THEN [num |-> Num(obs, l) + 1,
                         sum |-> (IF l \in DOMAIN obs THEN obs[l].sum ELSE 0) + v]
        ELSE obs[l]]

\* C18: an InHeader, InPayload or InTrailer event of wire length S on a
\* call whose context carries the rpcInfo adds exactly one observation of
\* value S to recv_bytes under the call's type, service, method and the
\* frame's label, and changes no other metric: pending, total requests,
\* latency, sent bytes and connections stay as they were.
C18_Inbound ==
    [][\A c \in CallIds, f \in Frames, w \in 1..MaxWire :
          (HandleIn(c, f, w) /\ statsCtx[c][Key] # NoRec) =>
              LET v == rec[statsCtx[c][Key]].info
              IN  /\ cfg.recvBytes # "noop" =>
                        recvBytes' = OneMore(recvBytes, w, <<v.typ, v.server, v.method, f>>)
                  /\ cfg.recvBytes = "noop" => recvBytes' = recvBytes
                  /\ UNCHANGED <<reqsPending, reqsTotal, latency, sentBytes,
                                 connsOpen, connsTotal, methods>>]_vars

\* An inbound frame of a begun, registered call was recorded: recv_bytes
\* holds one observation under the call's labels, sent_bytes holds none, and
\* the call is still pending.
C18_Witness ==
    /\ nframes = 1
    /\ cfg.recvBytes # "noop"
    /\ \E c \in CallIds :
          /\ calls[c].phase = "begun"
          /\ statsCtx[c][Key] # NoRec
          /\ LET v == rec[statsCtx[c][Key]].info
             IN  \E f \in Frames :
                    /\ <<v.typ, v.server, v.method, f>> \in DOMAIN recvBytes
                    /\ recvBytes[<<v.typ, v.server, v.method, f>>] = [num |-> 1, sum |-> MaxWire]
    /\ sentBytes = Empty

\* The series of counter or gauge vector vec after adding d under the labels
\* lvs, every other series as it was.
Bumped(vec, lvs, d) ==
    [l \in DOMAIN vec \cup {lvs} |-> IF l = lvs THEN Val(vec, l) + d ELSE vec[l]]

\* The codes warm-up has created series for.
WarmedCodes == UNION {inits[j].codes : j \in 1..Len(inits)}

\* C19: an End event with any status code, Canceled and codes outside the
\* warm-up code set included, on a call whose context carries the rpcInfo
\* adds one latency observation and one to the request total under the
\* call's type, service, method and that code, creating the series if it is
\* missing, and takes one from pending; the warm-up codes decide only which
\* series exist beforehand.
C19_AnyCode ==
    [][\A c \in CallIds, code \in Codes, t \in 1..MaxTime :
          (HandleEnd(c, code, t) /\ statsCtx[c][Key] # NoRec) =>
              LET r == rec[statsCtx[c][Key]]
                  v == r.info
                  lvs == <<v.typ, v.server, v.method, code>>
              IN  /\ cfg.latency # "noop" => latency' = OneMore(latency, t - r.begin, lvs)
                  /\ cfg.reqsTotal = "real" => reqsTotal' = Bumped(reqsTotal, lvs, 1)
                  /\ cfg.reqsPending = "real" =>
                        reqsPending' = Bumped(reqsPending, <<v.typ, v.server, v.method>>, -1)]_vars

\* Warm-up created the series of a method for OK only, and a call on that
\* method ended Canceled: the Canceled series exists with one request and one
\* latency observation next to the untouched OK series.
C19_Witness ==
    /\ cfg.reqsTotal = "real" /\ cfg.latency # "noop"
    /\ WarmedCodes = {"OK"}
    /\ \A c \in CallIds : calls[c].phase = "none"
    /\ LET ok == <<unary, <<"s">>, <<"u">>, "OK">>
           cn == <<unary, <<"s">>, <<"u">>, "Canceled">>
       IN  /\ {ok, cn} \subseteq DOMAIN reqsTotal
           /\ reqsTotal[ok] = 0 /\ reqsTotal[cn] = 1
           /\ latency[ok].num = 0 /\ latency[cn].num = 1

\* The goroutines whose call of Observe on observer X under lvs has returned.
Finished(X, lvs) ==
    {g \in Goroutines : observing[g].pc = "done" /\ observing[g].X = X /\ observing[g].lvs = lvs}

RECURSIVE Total(_)
Total(G) ==
    IF G = {} THEN 0
    ELSE LET g == CHOOSE x \in G : TRUE IN observing[g].v + Total(G \ {g})

C20_Monotone ==
    \A X \in Observers :
        cfg[X] = "counters" =>
            \A l \in DOMAIN ObserverVec(X) :
                /\ l \in DOMAIN ObserverVec(X)'
                /\ ObserverVec(X)'[l].num >= ObserverVec(X)[l].num
                /\ ObserverVec(X)'[l].sum >= ObserverVec(X)[l].sum

C20_NoneLost ==
    (\A g \in Goroutines : observing[g].pc # "sum") =>
        \A X \in Observers, l \in LabelTuples :
            cfg[X] = "counters" =>
                /\ Num(ObserverVec(X), l) = Cardinality(Finished(X, l))
                /\ (IF l \in DOMAIN ObserverVec(X) THEN ObserverVec(X)[l].sum ELSE 0)
                        = Total(Finished(X, l))

\* C20: however the Observe calls of concurrent goroutines on a sum-and-count
\* observer interleave, with values that are not negative, the sum and the
\* count of every series only grow, and whenever no call is between its two
\* statements the count is the number of calls made and the sum the total of
\* their values.
C20_Concurrent == []C20_NoneLost /\ [][C20_Monotone]_vars

\* Two goroutines have both finished an Observe of value 1 on the same
\* series of a sum-and-count observer.
C20_Witness ==
    \E X \in Observers, l \in LabelTuples :
        /\ cfg[X] = "counters"
        /\ \A g \in Goroutines : observing[g] = [pc |-> "done", X |-> X, v |-> 1, lvs |-> l]
        /\ ObserverVec(X)[l] = [num |-> MaxGoroutines, sum |-> MaxGoroutines]

\* What resolving full method name n with fallback type typ must give: info
\* is the MethodInfo returned, the registry goes from methods to methods'.
Resolved(n, typ, info) ==
    IF n \in DOMAIN methods
    THEN info = methods[n] /\ methods' = methods
    ELSE /\ info.typ = typ
         /\ IsSplit(n, info.server, info.method)
         /\ methods' = IF typ = unknown THEN methods ELSE methods @@ (n :> info)

\* C21: resolving a full method name returns the registry's entry as it is
\* when there is one, whatever the fallback type, and leaves the registry
\* alone; on a miss it returns the split name with the fallback type and
\* adds exactly that entry to the registry when the fallback type is
\* concrete, and nothing when it is Unknown.
C21_Resolve ==
    [][\A c \in CallIds, n \in FullNames, p \in BOOLEAN :
          /\ (TagRPC(c, n, p) /\ CtxIn(c, p)[Key] = NoRec) =>
                Resolved(n, unknown, rec'[ctx'[c][Key]].info)
          /\ \A f \in StreamFlags[n] :
                context(c, n, p, grpcType(f[1], f[2])) =>
                    Resolved(n, grpcType(f[1], f[2]), rec'[ctx'[c][Key]].info)]_vars

\* All three outcomes have happened: warm-up registered /s/u as Unary, and a
\* call on the unregistered name u was tagged by the hook (Unknown, not
\* cached at that point) and then wrapped by the interceptor, which cached
\* the concrete type it resolved.
C21_Witness ==
    /\ Len(inits) > 0
    /\ methods[<<"/", "s", "/", "u">>].typ = unary
    /\ <<"u">> \in DOMAIN methods
    /\ methods[<<"u">>] = [typ |-> clientStream, server |-> UnknownName, method |-> UnknownName]
    /\ \E c \in CallIds : calls[c].tagged /\ calls[c].wrapped /\ calls[c].name = <<"u">>

C22_Kept == \A n \in DOMAIN methods : n \in DOMAIN methods' /\ methods'[n] = methods[n]

\* C22 as stated: however warm-up registrations and lazy resolutions (a Load,
\* then a Store) interleave, an entry the registry holds never changes.
C22_Immutable == [][C22_Kept]_vars

\* The call types the writers so far have computed for full method name n:
\* warm-up from the method's descriptor, lazy resolutions from a concrete
\* fallback type.
Written(n) ==
    {grpcType(m.IsClientStream, m.IsServerStream) :
        m \in UNION {{x \in inits[i].methods : FullName(inits[i].server, x.Name) = n} :
                        i \in 1..Len(inits)}} \cup
    {resolving[g].typ : g \in {h \in Goroutines : /\ resolving[h] # Idle
                                                   /\ resolving[h].method = n
                                                   /\ resolving[h].typ # unknown}}

Agreeing == \A n \in FullNames : Cardinality(Written(n)) <= 1

\* C22: however warm-up registrations and lazy resolutions (a Load, then a
\* Store) interleave, an entry the registry holds never changes as long as
\* all writers of its name, the one of the step included, compute the same
\* call type; a writer that computes another type replaces the entry.
C22_ImmutableIfAgreed == [][Agreeing' => C22_Kept]_vars

\* Two goroutines both missed /s/u and both stored it, and warm-up stored it
\* as well, all three with the type Unary: the entry was written three times
\* and holds that value.
C22_Witness ==
    /\ Agreeing
    /\ Len(inits) > 0
    /\ \A g \in Goroutines :
          /\ resolving[g].pc = "done"
          /\ resolving[g].method = <<"/", "s", "/", "u">>
          /\ resolving[g].typ = unary
          /\ resolving[g].info.typ = unary
    /\ methods[<<"/", "s", "/", "u">>] = [typ |-> unary, server |-> <<"s">>, method |-> <<"u">>]

\* Every series of vec the step created or changed carries the labels tp of
\* type, service and method.
OnlyUnder(vec, vecN, tp) ==
    \A l \in DOMAIN vecN :
        (l \notin DOMAIN vec \/ vecN[l] # vec[l]) => <<l[1], l[2], l[3]>> = tp

C23_Events ==
    \A c \in CallIds :
        (Event(c) /\ statsCtx[c][Key] # NoRec) =>
            LET v == rec[statsCtx[c][Key]].info
                tp == <<v.typ, v.server, v.method>>
            IN  /\ methods' = methods
                /\ OnlyUnder(reqsPending, reqsPending', tp)
                /\ OnlyUnder(reqsTotal, reqsTotal', tp)
                /\ OnlyUnder(latency, latency', tp)
                /\ OnlyUnder(sentBytes, sentBytes', tp)
                /\ OnlyUnder(recvBytes, recvBytes', tp)

C23_Retag ==
    \A c \in CallIds, n \in FullNames :
        (TagRPC(c, n, FALSE) /\ CtxIn(c, FALSE)[Key] # NoRec) =>
            /\ methods' = methods
            /\ rec' = rec
            /\ statsCtx'[c] = CtxIn(c, FALSE)

\* C23: every Begin, End and frame event of a tagged call records under the
\* type, service and method of the rpcInfo in its context, whatever the
\* registry holds for the call's name by then, and leaves the registry as it
\* is; TagRPC on a context that already holds the rpcInfo returns it as it is
\* and resolves nothing.
C23_FromRecord == [][C23_Events /\ C23_Retag]_vars

\* A call on /s/u was tagged by the hook before warm-up and so as Unknown;
\* warm-up then registered /s/u as Unary; the call's Begin was counted under
\* the record's Unknown, not under the registry's Unary.
C23_Witness ==
    /\ cfg.reqsPending = "real"
    /\ Len(inits) > 0
    /\ methods[<<"/", "s", "/", "u">>].typ = unary
    /\ \E c \in CallIds :
          /\ calls[c].phase = "begun" /\ calls[c].name = <<"/", "s", "/", "u">>
          /\ rec[statsCtx[c][Key]].info.typ = unknown
    /\ reqsPending[<<unknown, <<"s">>, <<"u">>>>] = 1
    /\ reqsPending[<<unary, <<"s">>, <<"u">>>>] = 0

\* C24: an OutHeader, OutPayload or OutTrailer event on a call whose context
\* carries the rpcInfo adds exactly one observation to sent_bytes under the
\* call's type, service, method and the frame's label: of the wire length S
\* for a payload, of 0 for a header and for a trailer.
C24_Outbound ==
    [][\A c \in CallIds, f \in Frames, w \in 1..MaxWire :
          (HandleOut(c, f, w) /\ statsCtx[c][Key] # NoRec) =>
              LET v == rec[statsCtx[c][Key]].info
              IN  /\ cfg.sentBytes # "noop" =>
                        sentBytes' = OneMore(sentBytes, IF f = payload THEN w ELSE 0,
                                             <<v.typ, v.server, v.method, f>>)
                  /\ cfg.sentBytes = "noop" => sentBytes' = sentBytes
                  /\ UNCHANGED <<reqsPending, reqsTotal, latency, recvBytes>>]_vars

\* An outbound trailer of wire length MaxWire was recorded for a begun call:
\* sent_bytes holds one observation of 0 under the trailer label.
C24_Witness ==
    /\ nframes = 1
    /\ cfg.sentBytes # "noop"
    /\ recvBytes = Empty
    /\ \E c \in CallIds :
          /\ calls[c].phase = "begun"
          /\ statsCtx[c][Key] # NoRec
          /\ LET v == rec[statsCtx[c][Key]].info
             IN  /\ DOMAIN sentBytes = {<<v.typ, v.server, v.method, trailer>>}
                 /\ sentBytes[<<v.typ, v.server, v.method, trailer>>] = [num |-> 1, sum |-> 0]

\* C25: the type, service and method a call's events are recorded under do
\* not change once its Begin has been handled: whatever runs between the
\* Begin and the End of a call, interception-path tagging included, the
\* rpcInfo its events read holds the same labels afterwards as before, so
\* Begin, frames and End all use one tuple.
C25_OneTuple ==
    [][\A c \in CallIds :
          LET r == statsCtx[c][Key]
          IN  (calls[c].phase = "begun" /\ r # NoRec /\ r \in DOMAIN rec') =>
                  rec'[r].info = rec[r].info]_vars

\* C26: no series of the pending gauge is ever negative, and whenever no call
\* is between its Begin and its End every series of the gauge is 0, for
\* warmed-up and other methods and wherever the interceptor's tagging falls.
C26_PendingPerSeries ==
    cfg.reqsPending = "real" =>
        /\ \A l \in DOMAIN reqsPending : reqsPending[l] >= 0
        /\ (\A c \in CallIds : calls[c].phase # "begun") =>
                \A l \in DOMAIN reqsPending : reqsPending[l] = 0

C27_NoUnknownEntry == \A n \in DOMAIN methods : methods[n].typ # unknown

C27_Tagged ==
    \A c \in CallIds, n \in FullNames :
        (TagRPC(c, n, FALSE) /\ CtxIn(c, FALSE)[Key] = NoRec /\ n \in DOMAIN methods) =>
            LET v == rec'[statsCtx'[c][Key]].info
            IN  v = methods[n] /\ v.typ # unknown

\* C27: from the moment the registry holds an entry for a full method name,
\* put there by warm-up or by an interceptor's resolution with a concrete
\* type, every rpcInfo that TagRPC creates for that name holds the entry's
\* concrete type, never Unknown.
C27_CachedType == []C27_NoUnknownEntry /\ [][C27_Tagged]_vars

\* An interceptor of another call resolved the unregistered name u with
\* ClientStream and cached it; the call tagged by the hook afterwards holds
\* ClientStream for u.
C27_Witness ==
    /\ Len(inits) = 0
    /\ \E g \in Goroutines :
          resolving[g] = [pc |-> "done", method |-> <<"u">>, typ |-> clientStream,
                          info |-> [typ |-> clientStream, server |-> UnknownName, method |-> UnknownName]]
    /\ \E c \in CallIds :
          /\ calls[c].tagged /\ calls[c].name = <<"u">>
          /\ rec[statsCtx[c][Key]].info.typ = clientStream

C28_Wrap ==
    \A c \in CallIds, n \in FullNames, p \in BOOLEAN : \A f \in StreamFlags[n] :
        LET r == CtxIn(c, p)[Key]
        IN  (context(c, n, p, grpcType(f[1], f[2])) /\ r # NoRec) =>
                /\ DOMAIN rec' = DOMAIN rec
                /\ rec'[r].begin = rec[r].begin
                /\ \A q \in DOMAIN rec \ {r} : rec'[q] = rec[q]
                /\ ctx'[c] = CtxIn(c, p)

C28_Begun ==
    \A c \in CallIds :
        LET r == statsCtx[c][Key]
        IN  (calls[c].phase = "begun" /\ r # NoRec) =>
                /\ r \in DOMAIN rec' => rec'[r].begin = rec[r].begin
                /\ \A code \in Codes, t \in 1..MaxTime :
                      (HandleEnd(c, code, t) /\ cfg.latency # "noop") =>
                          \E l \in DOMAIN latency' :
                              latency' = OneMore(latency, t - rec[r].begin, l)

\* C28: the interceptor's tagging of a context that already holds the
\* rpcInfo changes nothing of it but the methodInfo: the begin time a Begin
\* has stored stays, nothing else changes it before the End, and the
\* latency the End observes is the time since that Begin.
C28_BeginKept == [][C28_Wrap /\ C28_Begun]_vars

\* A call was tagged by the hook and begun at time MaxTime, then wrapped by
\* the interceptor, then ended at time MaxTime: its one latency observation,
\* under the interceptor's type, is 0.
C28_Witness ==
    /\ cfg.latency # "noop" /\ cfg.reqsPending = "real"
    /\ \A c \in CallIds : calls[c].phase = "none"
    /\ started = 1
    /\ \E l \in DOMAIN reqsPending : l[1] = unknown /\ reqsPending[l] = 1
    /\ \E l \in DOMAIN latency : l[1] # unknown /\ latency[l] = [num |-> 1, sum |-> 0]

\* C29: two handlers built from different options and given the same
\* warm-ups and events hold, for every metric that both have enabled in the
\* same way, the same series with the same values: what one metric is
\* configured as has no effect on what another records or has pre-created.
C29_NonInterference ==
    /\ handlerServer[1].reqsPending = handlerServer[2].reqsPending
    /\ handlerServer[1].reqsTotal = handlerServer[2].reqsTotal
    /\ \A M \in {"latency", "bytesRecv", "bytesSent"} :
          handlerServer[1][M].nil = handlerServer[2][M].nil =>
              handlerServer[1][M].vec = handlerServer[2][M].vec

\* C30: applying the Option of one metric, whatever its sub-options and
\* whatever was applied before, leaves the disable flag and the buckets of
\* the six other metrics as they were.
C30_OwnMetricOnly ==
    [][\A opt \in Options :
          ApplyOption(opt) =>
              \A M \in DOMAIN options0 \ {opt.metric} : options'[M] = options[M]]_vars

\* After SentBytes(Disable()), SentBytes(Buckets(v)), RequestsTotal(Disable())
\* and LatencySeconds(NoBuckets()), exactly these three metrics differ from
\* the initial options.
C30_Witness ==
    /\ options.sentBytes = [disable |-> TRUE, buckets |-> <<0, 1>>]
    /\ options.reqsTotal = [disable |-> TRUE]
    /\ options.latency = [disable |-> FALSE, buckets |-> <<>>]
    /\ \A M \in {"connsOpen", "connsTotal", "reqsPending", "recvBytes"} : options[M] = options0[M]

\* The sub-options of a list that set buckets, and whether Disable is in it.
BucketSubs(subs) == {i \in 1..Len(subs) : subs[i].op \in {"Buckets", "NoBuckets"}}
HasDisable(subs) == \E i \in 1..Len(subs) : subs[i].op = "Disable"

\* The last sub-option of a list that sets buckets.
LastBucketSub(subs) == subs[CHOOSE i \in BucketSubs(subs) : \A j \in BucketSubs(subs) : j <= i]

C31_Applied(opt) ==
    LET M == opt.metric
        hist == M \in {"latency", "recvBytes", "sentBytes"}
        made == IF hist THEN newObserver(options'[M]) ELSE newVec(options'[M])
    IN  /\ options'[M].disable = (options[M].disable \/ HasDisable(opt.subs))
        /\ options'[M].disable => made = "noop"
        /\ (hist /\ ~options'[M].disable) =>
              IF BucketSubs(opt.subs) = {}
              THEN options'[M].buckets = options[M].buckets
              ELSE LET b == LastBucketSub(opt.subs)
                   IN  made = IF b.op = "Buckets" /\ Len(b.v) > 0 THEN "histogram" ELSE "counters"

\* C31: a metric that Disable was applied to, now or earlier, alone or next
\* to Buckets and NoBuckets in any order, is constructed as the no-op one;
\* no option enables it again.  For an enabled observer the last bucket
\* option applied decides: a histogram after Buckets with a non-empty
\* list, the sum and count pair after NoBuckets or an empty list.
C31_DisableWins == [][\A opt \in Options : ApplyOption(opt) => C31_Applied(opt)]_vars

\* Latency was disabled and given buckets, in some order: it is built as the
\* no-op observer; sent_bytes was given buckets and is a histogram;
\* recv_bytes was given buckets and then none, and is the sum and count pair.
C31_Witness ==
    /\ options.latency = [disable |-> TRUE, buckets |-> <<0, 1>>]
    /\ newObserver(options.latency) = "noop"
    /\ options.sentBytes = [disable |-> FALSE, buckets |-> <<0, 1>>]
    /\ newObserver(options.sentBytes) = "histogram"
    /\ options.recvBytes = [disable |-> FALSE, buckets |-> <<>>]
    /\ newObserver(options.recvBytes) = "counters"

\* Before any call, the registry holds names of warm-up only.
C32_Within == started = 0 => DOMAIN methods \subseteq WarmNames

\* A step keeps every key; a key it adds is a name this step's warm-up
\* registers or this step's interceptor is given.
C32_Grows ==
    /\ DOMAIN methods \subseteq DOMAIN methods'
    /\ \A n \in DOMAIN methods' \ DOMAIN methods :
          \/ n \in WarmNames' \ WarmNames
          \/ \E c \in DOMAIN calls, nested \in BOOLEAN :
                \E f \in StreamFlags[n] : context(c, n, nested, grpcType(f[1], f[2]))
    /\ (\E c \in DOMAIN calls, n \in FullNames, nested \in BOOLEAN : TagRPC(c, n, nested))
          => methods' = methods

\* C32: every key of the registry is a full method name that warm-up
\* registered or an interceptor was given; no step removes a key, and a
\* TagRPC step, whatever name it is given, leaves the registry as it was.
C32_OnlyAdded == []C32_Within /\ [][C32_Grows]_vars

\* A call of a name the registry does not hold was tagged by the lifecycle
\* hook while the registry held warmed-up names: it holds them still, and
\* not the tagged name.
C32_Witness ==
    /\ DOMAIN methods # {}
    /\ \E c \in DOMAIN calls :
          /\ calls[c].tagged
          /\ ~calls[c].wrapped
          /\ calls[c].name \notin DOMAIN methods

\* C33: InitServer returns, without a nil dereference, whatever the
\* Disable flags of Latency, BytesRecv and BytesSent of the server
\* subsystem are.
C33_NoFailure == \A r \in Runs : ~handlerServer[r].panicked

\* The series of `vec` for the methods of the i-th InitServer and each of `last`.
C34_Has(vec, i, last) ==
    \A meth \in inits[i].methods, l \in last : <<inits[i].server, meth.Name, l>> \in DOMAIN vec

\* C34: once InitServer has returned, the latency series of every method
\* and given code exist when latency is enabled, and the recv_bytes and
\* sent_bytes series of every method and frame exist when that histogram
\* is enabled, whatever the other histograms are.
C34_AllEnabledInitialized ==
    \A r \in Runs, i \in 1..Len(inits) :
        LET m == handlerServer[r]
            code == IF inits[i].codes = {} THEN AllCodes ELSE inits[i].codes
        IN  ~m.panicked =>
                /\ ~m.latency.nil => C34_Has(m.latency.vec, i, code)
                /\ ~m.bytesRecv.nil => C34_Has(m.bytesRecv.vec, i, Frames)
                /\ ~m.bytesSent.nil => C34_Has(m.bytesSent.vec, i, Frames)

SpecHandler == InitHandler /\ [][NextHandler]_vars

\* The subsystem an event with the flag isClient does not belong to.
OtherSubsystem(isClient) == IF isClient THEN "server" ELSE "client"

C35_Event(isClient) ==
    \/ \E stat \in RPCStats : HandlerHandleRPC(isClient, stat)
    \/ \E kind \in ConnStats : HandlerHandleConn(isClient, kind)

\* C35: a call event or connection event delivered to the handler of a
\* Metrics with the client flag set leaves every server metric as it was,
\* and one with the flag unset leaves every client metric as it was; the
\* metric the event stands for changes in the subsystem of the flag.
C35_OwnSubsystem ==
    [][\A isClient \in BOOLEAN :
          C35_Event(isClient) =>
              /\ handler'[OtherSubsystem(isClient)] = handler[OtherSubsystem(isClient)]
              /\ (\E kind \in ConnStats : HandlerHandleConn(isClient, kind)) =>
                    handler'[subsystemOf(isClient)] # handler[subsystemOf(isClient)]
              /\ (\E stat \in RPCStats : stat.kind \in {"Begin", "End"} /\ HandlerHandleRPC(isClient, stat)
                                          /\ handler.info.ok) =>
                    handler'[subsystemOf(isClient)] # handler[subsystemOf(isClient)]]_vars

\* A client call has begun and a server connection has opened: the client
\* subsystem counts the call and no connection, the server subsystem the
\* connection and no call.
C35_Witness ==
    /\ handler.events = 2
    /\ handler.client.reqsPending # Empty
    /\ handler.client.connsTotal = 0
    /\ handler.server.reqsPending = Empty
    /\ handler.server.connsTotal = 1

\* The goroutines whose Observe on the series l of X has completed its
\* addition to the sum, and those that have completed the increment too.
SumAdded(X, l) ==
    {g \in Goroutines : observing[g] # Idle /\ observing[g].pc \in {"sum", "done"}
                        /\ observing[g].X = X /\ observing[g].lvs = l}
NumIncremented(X, l) ==
    {g \in Goroutines : observing[g] # Idle /\ observing[g].pc = "done"
                        /\ observing[g].X = X /\ observing[g].lvs = l}

\* C36: at every point of concurrent Observe calls on a sum-and-count
\* observer, the number of increments of a series' count counter that have
\* completed is the value a reader sees in it, and is at most the number
\* of additions to the same series' sum counter that have completed.
C36_SumFirst ==
    \A X \in Observers, l \in LabelTuples :
        (cfg[X] = "counters" /\ l \in DOMAIN ObserverVec(X)) =>
            /\ ObserverVec(X)[l].num = Cardinality(NumIncremented(X, l))
            /\ ObserverVec(X)[l].num <= Cardinality(SumAdded(X, l))

\* One Observe has returned and another, of value 1 on the same series,
\* is between its two statements: a reader sees the sum of two
\* observations and the count of one.
C36_Witness ==
    \E X \in Observers, l \in LabelTuples, g \in Goroutines :
        /\ cfg[X] = "counters"
        /\ observing[g] = [pc |-> "sum", X |-> X, v |-> 1, lvs |-> l]
        /\ Cardinality(SumAdded(X, l)) = 2
        /\ ObserverVec(X)[l].num = 1

====
